---- MODULE Spec2Model ----
(***************************************************************************)
(* AFM profile analysis (src/AFM/gwy-profile-analysis-v3.py, with the      *)
(* peak-to-peak amplitude of gwy-profile-analysis-v1.py).                  *)
(*                                                                         *)
(* Numbers.  A float is modelled by an integer: a coordinate of a profile  *)
(* is the integer count of the smallest unit the inputs of the model use.  *)
(* Arrays are sequences; indices are the 0-based indices of the Python     *)
(* code, read through Py(a, i).                                            *)
(***************************************************************************)
EXTENDS Integers, Sequences, FiniteSets, TLC

\* ----------------------------------------------------------------- bounds
\* Longest profile drawn by the profile specification.
MaxLen == 4

\* z values and x gaps the drawn profiles are built from (gap 0: tied x).
ZVals == {-1, 0, 1}
Gaps == {0, 1, 2}

\* ------------------------------------------------------- Python / numpy
\* a[i] with Python's 0-based index.
Py(a, i) == a[i + 1]

\* a[lo:hi]
Slice(a, lo, hi) == SubSeq(a, lo + 1, hi)

Abs(n) == IF n < 0 THEN -n ELSE n

Max2(a, b) == IF a >= b THEN a ELSE b

Min2(a, b) == IF a <= b THEN a ELSE b

RECURSIVE argmin_scan(_, _, _)
argmin_scan(a, i, best) ==
    IF i >= Len(a) THEN best
    ELSE argmin_scan(a, i + 1, IF Py(a, i) < Py(a, best) THEN i ELSE best)

RECURSIVE argmin_last_scan(_, _, _)
argmin_last_scan(a, i, best) ==
    IF i >= Len(a) THEN best
    ELSE argmin_last_scan(a, i + 1, IF Py(a, i) <= Py(a, best) THEN i ELSE best)

\* A scan that keeps the last of tied minima.
argmin_last(a) == argmin_last_scan(a, 1, 0)

\* np.argmin: the index of the first occurrence of the minimum.
argmin(a) == argmin_scan(a, 1, 0)

RECURSIVE amax_scan(_, _, _)
amax_scan(a, i, best) ==
    IF i >= Len(a) THEN best
    ELSE amax_scan(a, i + 1, Max2(best, Py(a, i)))

\* np.max of a non-empty array.
np_max(a) == amax_scan(a, 1, Py(a, 0))

RECURSIVE amin_scan(_, _, _)
amin_scan(a, i, best) ==
    IF i >= Len(a) THEN best
    ELSE amin_scan(a, i + 1, Min2(best, Py(a, i)))

\* np.min of a non-empty array.
np_min(a) == amin_scan(a, 1, Py(a, 0))

RECURSIVE where_scan(_, _, _, _)
where_scan(a, v, i, acc) ==
    IF i >= Len(a) THEN acc
    ELSE where_scan(a, v, i + 1, IF Py(a, i) = v THEN Append(acc, i) ELSE acc)

\* np.where(a == v)[0]: the indices holding v, ascending.
where_eq(a, v) == where_scan(a, v, 0, <<>>)

\* ------------------------------------------------------ ExtremumLocator
\* The left maximum searched over the whole profile instead of y[:i_min+1].
find_local_maxima_unsliced(y) ==
    LET i_min == argmin(y)
        i_left == IF i_min > 0
                  THEN LET c == where_eq(y, np_max(y)) IN Py(c, Len(c) - 1)
                  ELSE 0
        i_right == IF i_min < Len(y) - 1
                   THEN LET s == Slice(y, i_min, Len(y))
                            c == where_eq(s, np_max(s))
                        IN i_min + Py(c, 0)
                   ELSE Len(y) - 1
    IN <<i_left, i_min, i_right>>

\* The tied maxima resolved away from the minimum (first on the left, last
\* on the right).
find_local_maxima_far(y) ==
    LET i_min == argmin(y)
        i_left == IF i_min > 0
                  THEN LET s == Slice(y, 0, i_min + 1)
                            c == where_eq(s, np_max(s))
                        IN Py(c, 0)
                  ELSE 0
        i_right == IF i_min < Len(y) - 1
                   THEN LET s == Slice(y, i_min, Len(y))
                            c == where_eq(s, np_max(s))
                        IN i_min + Py(c, Len(c) - 1)
                   ELSE Len(y) - 1
    IN <<i_left, i_min, i_right>>

\* find_local_maxima_around_min(x, y): <<i_left, i_min, i_right>>.
find_local_maxima_around_min(y) ==
    LET i_min == argmin(y)
        i_left == IF i_min > 0
                  THEN LET left_section == Slice(y, 0, i_min + 1)
                            max_val_left == np_max(left_section)
                            candidates_left == where_eq(left_section, max_val_left)
                        IN Py(candidates_left, Len(candidates_left) - 1)
                  ELSE 0
        i_right == IF i_min < Len(y) - 1
                   THEN LET right_section == Slice(y, i_min, Len(y))
                            max_val_right == np_max(right_section)
                            candidates_right == where_eq(right_section, max_val_right)
                        IN i_min + Py(candidates_right, 0)
                   ELSE Len(y) - 1
    IN <<i_left, i_min, i_right>>

\* --------------------------------------------------- AmplitudeCalculator
\* The amplitude taken from the first sample in place of the minimum.
vertical_amplitude_from_first(zz) == Abs(np_max(zz) - zz[1])

\* vertical_amplitude_ptp(z) of the v1 script.
vertical_amplitude_ptp(zz) == Abs(np_max(zz) - np_min(zz))

\* The distance taken between the minimum and the right maximum.
horizontal_amplitude_from_min(xx, yy) ==
    LET ix == find_local_maxima_around_min(yy)
    IN <<Abs(Py(xx, ix[3]) - Py(xx, ix[2])), ix>>

\* horizontal_amplitude_around_min(x, y): <<width, idxs>>.
horizontal_amplitude_around_min(xx, yy) ==
    LET ix == find_local_maxima_around_min(yy)
    IN <<Abs(Py(xx, ix[3]) - Py(xx, ix[1])), ix>>

\* The differences taken the wrong way round.
vertical_amplitudes_negated(zz, ix) ==
    <<Py(zz, ix[2]) - Py(zz, ix[1]), Py(zz, ix[2]) - Py(zz, ix[3])>>

\* vertical_amplitudes_left_right(x, z, idxs): <<v_left, v_right>>.
vertical_amplitudes_left_right(zz, ix) ==
    <<Py(zz, ix[1]) - Py(zz, ix[2]), Py(zz, ix[3]) - Py(zz, ix[2])>>

\* ------------------------------------------------------------ WidthMetric
\* The reference taken with a strict comparison: a tie selects the right.
width_reference_strict(xx, zz, ix) ==
    LET z_left == Py(zz, ix[1])
        z_right == Py(zz, ix[3])
    IN IF z_left < z_right
       THEN [ref_idx |-> ix[1], ref_z |-> z_left, search_side |-> "right",
             x_lo |-> Py(xx, ix[2]), x_hi |-> Py(xx, Len(xx) - 1)]
       ELSE [ref_idx |-> ix[3], ref_z |-> z_right, search_side |-> "left",
             x_lo |-> Py(xx, 0), x_hi |-> Py(xx, ix[2])]

\* width_metric lines 123-147: the reference side, the search side and the
\* search interval.
width_reference(xx, zz, ix) ==
    LET z_left == Py(zz, ix[1])
        z_right == Py(zz, ix[3])
    IN IF z_left <= z_right
       THEN [ref_idx |-> ix[1], ref_z |-> z_left, search_side |-> "right",
             x_lo |-> Py(xx, ix[2]), x_hi |-> Py(xx, Len(xx) - 1)]
       ELSE [ref_idx |-> ix[3], ref_z |-> z_right, search_side |-> "left",
             x_lo |-> Py(xx, 0), x_hi |-> Py(xx, ix[2])]

\* CubicSpline(x, z) raises ValueError unless x is strictly increasing.
spline_ok(xx) == \A i \in 1..(Len(xx) - 1) : xx[i] < xx[i + 1]

\* |m - c| for every m of [a, b]: the enclosure <<lowest, highest>>.
abs_diff_enclosure(a, b, c) ==
    IF c <= a THEN <<a - c, b - c>>
    ELSE IF c >= b THEN <<c - b, c - a>>
    ELSE <<0, Max2(c - a, b - c)>>

\* width_metric lines 149-179.  The values of the spline between the samples
\* are not computed.  The match point is a crossing inside a bracket of the
\* dense grid over [x_lo, x_hi], or the x of a sample of the search side: it
\* is the x of a sample of the search side or lies between two adjacent ones.
\* A match point is held as an enclosure <<lo, hi>>, lo <= match_x <= hi.
width_match_points(xx, r, ix) ==
    LET first == IF r.search_side = "right" THEN ix[2] ELSE 0
        last == IF r.search_side = "right" THEN Len(xx) - 1 ELSE ix[2]
    IN { <<Py(xx, k), Py(xx, k)>> : k \in first..last }
       \cup { <<Py(xx, k), Py(xx, k + 1)>> : k \in first..(last - 1) }

\* ================================================================ strings
\* A str is a sequence of one-character strings.
Whitespace == {" ", "\t", "\n", "\r"}

Digit == {"0", "1", "2", "3", "4", "5", "6", "7", "8", "9"}

DigitVal(c) ==
    CASE c = "0" -> 0 [] c = "1" -> 1 [] c = "2" -> 2 [] c = "3" -> 3
      [] c = "4" -> 4 [] c = "5" -> 5 [] c = "6" -> 6 [] c = "7" -> 7
      [] c = "8" -> 8 [] c = "9" -> 9

\* The character at 1-based position i, "" past the end.
CharAt(s, i) == IF i >= 1 /\ i <= Len(s) THEN s[i] ELSE ""

RECURSIVE lstrip(_)
lstrip(s) == IF s # <<>> /\ Head(s) \in Whitespace THEN lstrip(Tail(s)) ELSE s

RECURSIVE rstrip(_)
rstrip(s) ==
    IF s # <<>> /\ s[Len(s)] \in Whitespace THEN rstrip(SubSeq(s, 1, Len(s) - 1)) ELSE s

\* str.strip()
strip(s) == lstrip(rstrip(s))

\* str.startswith(prefix)
startswith(s, prefix) ==
    Len(s) >= Len(prefix) /\ SubSeq(s, 1, Len(prefix)) = prefix

UpperToLower ==
    [A |-> "a", B |-> "b", C |-> "c", D |-> "d", E |-> "e", F |-> "f", G |-> "g",
     H |-> "h", I |-> "i", J |-> "j", K |-> "k", L |-> "l", M |-> "m", N |-> "n",
     O |-> "o", P |-> "p", Q |-> "q", R |-> "r", S |-> "s", T |-> "t", U |-> "u",
     V |-> "v", W |-> "w", X |-> "x", Y |-> "y", Z |-> "z"]

\* str.lower()
lower(s) ==
    [i \in 1..Len(s) |-> IF s[i] \in DOMAIN UpperToLower THEN UpperToLower[s[i]] ELSE s[i]]

Gwyddion == <<"g", "w", "y", "d", "d", "i", "o", "n">>

\* The header test made without lower-casing the line.
is_skipped_case_sensitive(s) ==
    startswith(s, <<"#">>) \/ startswith(s, <<";">>) \/ startswith(s, Gwyddion)

\* line 60: s.startswith("#") or s.startswith(";") or
\* s.lower().startswith("gwyddion")
is_skipped(s) ==
    startswith(s, <<"#">>) \/ startswith(s, <<";">>) \/ startswith(lower(s), Gwyddion)

\* ------------------------------------------------------------- the regex
\* [-+]?\d*\.?\d+(?:[eE][-+]?\d+)?  matched as re does: leftmost, greedy,
\* backtracking.
RECURSIVE digit_run(_, _)
digit_run(s, i) == IF CharAt(s, i) \in Digit THEN 1 + digit_run(s, i + 1) ELSE 0

\* \d*\.?\d+ at i: the position after the match, 0 when there is none.  The
\* greedy \d* gives back its last digit to \d+ when no ".digits" follows.
match_mantissa(s, i) ==
    LET n == digit_run(s, i)
        m == IF CharAt(s, i + n) = "." THEN digit_run(s, i + n + 1) ELSE 0
    IN IF m >= 1 THEN i + n + 1 + m
       ELSE IF n >= 1 THEN i + n
       ELSE 0

\* (?:[eE][-+]?\d+)? at p: the position after the exponent, p when absent.
match_exponent(s, p) ==
    IF CharAt(s, p) \in {"e", "E"}
    THEN LET q == IF CharAt(s, p + 1) \in {"-", "+"} THEN p + 2 ELSE p + 1
             m == digit_run(s, q)
         IN IF m >= 1 THEN q + m ELSE p
    ELSE p

\* The whole pattern at i: the position after the match, 0 when there is none.
match_number(s, i) ==
    LET j == IF CharAt(s, i) \in {"-", "+"} THEN i + 1 ELSE i
        p == match_mantissa(s, j)
    IN IF p = 0 THEN 0 ELSE match_exponent(s, p)

RECURSIVE findall_from(_, _, _)
findall_from(s, i, acc) ==
    IF i > Len(s) THEN acc
    ELSE LET p == match_number(s, i)
         IN IF p = 0 THEN findall_from(s, i + 1, acc)
            ELSE findall_from(s, p, Append(acc, SubSeq(s, i, p - 1)))

\* re.findall(pattern, s): the non-overlapping matches, left to right.
findall(s) == findall_from(s, 1, <<>>)

\* ----------------------------------------------------------------- float
\* Decimal places a modelled float keeps: float(t) is the integer count of
\* 10^-FracDigits in t.
FracDigits == 1

\* Largest power of ten by which a mantissa is scaled.
MaxPow10 == 3

RECURSIVE Pow10(_)
Pow10(n) == IF n <= 0 THEN 1 ELSE 10 * Pow10(n - 1)

RECURSIVE digits_value(_, _, _, _)
digits_value(s, i, n, acc) ==
    IF n = 0 THEN acc ELSE digits_value(s, i + 1, n - 1, 10 * acc + DigitVal(s[i]))

\* The fields of a token the pattern matched: sign, mantissa digits read as
\* an integer, number of fraction digits, signed exponent.
token_fields(t) ==
    LET neg == CharAt(t, 1) = "-"
        j == IF CharAt(t, 1) \in {"-", "+"} THEN 2 ELSE 1
        n == digit_run(t, j)
        dot == CharAt(t, j + n) = "."
        f == IF dot THEN digit_run(t, j + n + 1) ELSE 0
        p == IF dot THEN j + n + 1 + f ELSE j + n
        hasexp == CharAt(t, p) \in {"e", "E"}
        eneg == CharAt(t, p + 1) = "-"
        q == IF CharAt(t, p + 1) \in {"-", "+"} THEN p + 2 ELSE p + 1
        ev == IF hasexp THEN digits_value(t, q, digit_run(t, q), 0) ELSE 0
        ip == digits_value(t, j, n, 0)
        fp == IF dot THEN digits_value(t, j + n + 1, f, 0) ELSE 0
    IN [neg |-> neg, mant |-> ip * Pow10(f) + fp, frac |-> f,
        exp |-> IF eneg THEN -ev ELSE ev]

\* The power of ten that scales the mantissa of t to the model's unit.
unit_power(t) == LET f == token_fields(t) IN f.exp - f.frac + FracDigits

\* Tokens whose value the model's integers hold exactly.
representable(t) ==
    token_fields(t).mant = 0 \/ unit_power(t) \in 0..MaxPow10

\* float(t) of a token the pattern matched.
float(t) ==
    LET f == token_fields(t)
        m == IF f.mant = 0 THEN 0 ELSE f.mant * Pow10(unit_power(t))
    IN IF f.neg THEN -m ELSE m

\* ------------------------------------------------------ load_profile_txt
\* lines 57-66, the body of the loop over the lines: the samples the line
\* contributes, <<>> (skipped) or one pair <<x, z>>.
line_sample(line) ==
    LET s == strip(line)
    IN IF s = <<>> THEN <<>>
       ELSE IF is_skipped(s) THEN <<>>
       ELSE LET nums == findall(s)
            IN IF Len(nums) >= 2 THEN <<<<float(nums[1]), float(nums[2])>>>> ELSE <<>>

\* ==================================================== xnra_gui_v5.py, Tk
\* The element of a one-element set: a value computed once and named.
The(S) == CHOOSE r \in S : TRUE

\* A Python value a Tk variable returns or a JSON file holds: t is its type,
\* n the number (a float as a count of 10^-FracDigits, a bool as 0 or 1),
\* s the characters of a str.
PyFloat(n) == [t |-> "float", n |-> n, s |-> <<>>]

PyInt(n) == [t |-> "int", n |-> n, s |-> <<>>]

PyStr(s) == [t |-> "str", n |-> 0, s |-> s]

PyBool(b) == [t |-> "bool", n |-> IF b THEN 1 ELSE 0, s |-> <<>>]

\* float(value) of lines 97 and 101 on arbitrary text: surrounding
\* whitespace, a sign, digits with an optional point and at least one digit,
\* an optional exponent; anything else raises ValueError (ok = FALSE).
py_float(s) ==
    The({ LET j == IF CharAt(t, 1) \in {"-", "+"} THEN 2 ELSE 1
              n == digit_run(t, j)
              \* the point and the digits after it
              m == IF CharAt(t, j + n) = "." THEN 1 + digit_run(t, j + n + 1) ELSE 0
          IN IF n + m >= 1 /\ ~(n = 0 /\ m = 1) /\ match_exponent(t, j + n + m) = Len(t) + 1
             THEN [ok |-> TRUE, n |-> float(t)]
             ELSE [ok |-> FALSE, n |-> 0] :
          t \in {strip(s)} })

\* int(a float): truncation toward zero.
py_int(n) ==
    IF n >= 0 THEN n \div Pow10(FracDigits) ELSE -((-n) \div Pow10(FracDigits))

\* line 93: value.replace(',', '.')
replace_comma(s) == [i \in 1..Len(s) |-> IF s[i] = "," THEN "." ELSE s[i]]

DigitChar(d) ==
    CASE d = 0 -> "0" [] d = 1 -> "1" [] d = 2 -> "2" [] d = 3 -> "3"
      [] d = 4 -> "4" [] d = 5 -> "5" [] d = 6 -> "6" [] d = 7 -> "7"
      [] d = 8 -> "8" [] d = 9 -> "9"

\* str(n) of a natural number.
RECURSIVE str_nat(_)
str_nat(n) == IF n < 10 THEN <<DigitChar(n)>> ELSE Append(str_nat(n \div 10), DigitChar(n % 10))

\* str(n) of an int.
str_int(n) == IF n < 0 THEN <<"-">> \o str_nat(-n) ELSE str_nat(n)

\* The k low decimal digits of n, leading zeros kept.
RECURSIVE pad_digits(_, _)
pad_digits(n, k) ==
    IF k = 0 THEN <<>> ELSE Append(pad_digits(n \div 10, k - 1), DigitChar(n % 10))

RECURSIVE strip_zeros(_)
strip_zeros(d) ==
    IF Len(d) > 1 /\ d[Len(d)] = "0" THEN strip_zeros(SubSeq(d, 1, Len(d) - 1)) ELSE d

\* repr of a float, which str(), json.dump and Tcl's string form of a double
\* all give for the values modelled: the shortest decimal with a point.
repr_float(n) ==
    LET a == Abs(n)
        whole == str_nat(a \div Pow10(FracDigits))
        frac == IF FracDigits = 0 THEN <<"0">>
                ELSE strip_zeros(pad_digits(a % Pow10(FracDigits), FracDigits))
    IN (IF n < 0 THEN <<"-">> ELSE <<>>) \o whole \o <<".">> \o frac

\* str(value), line 115.
py_str(val) ==
    CASE val.t = "float" -> repr_float(val.n)
      [] val.t = "int" -> str_int(val.n)
      [] val.t = "str" -> val.s
      [] val.t = "bool" -> IF val.n = 1 THEN <<"T", "r", "u", "e">>
                           ELSE <<"F", "a", "l", "s", "e">>

\* Variable.set(value): the text Tcl keeps for a Python value.
var_set(val) ==
    CASE val.t = "float" -> repr_float(val.n)
      [] val.t = "int" -> str_int(val.n)
      [] val.t = "str" -> val.s
      [] val.t = "bool" -> IF val.n = 1 THEN <<"1">> ELSE <<"0">>

\* lines 508-514: create_number_field without is_int makes a tk.DoubleVar.
DoubleVars ==
    {"fig_width", "fig_height", "raw_marker_size", "raw_marker_edge_width",
     "raw_marker_range_min", "raw_marker_range_max", "raw_line_width", "raw_line_alpha",
     "smoothed_marker_size", "smoothed_marker_edge_width", "smoothed_marker_range_min", "smoothed_marker_range_max",
     "smoothed_line_width", "smoothed_line_alpha", "title_size", "axis_label_size",
     "tick_label_size", "legend_size", "info_box_size", "tick_length",
     "tick_width"}

\* line 192: the one field created with is_int=True, a tk.IntVar.
IntVars ==
    {"fig_dpi"}

\* lines 525-529: create_optional_number_field makes a tk.StringVar.
OptionalVars ==
    {"channel_min", "channel_max", "energy_min", "energy_max",
     "counts_min", "counts_max"}

\* The tk.BooleanVar attributes of the four tabs.
BooleanVars ==
    {"show_legend", "show_info_box", "show_raw_data", "show_raw_markers",
     "raw_marker_range_enabled", "show_raw_line", "show_smoothed_data", "show_smoothed_markers",
     "smoothed_marker_range_enabled", "show_smoothed_line", "show_grid"}

\* The tk.StringVar attributes: radio buttons, the title and the colour fields.
StringVars ==
    {"info_box_position", "custom_title", "raw_marker_shape", "raw_marker_fill",
     "raw_marker_color", "raw_marker_range_mode", "raw_line_color", "smoothed_marker_shape",
     "smoothed_marker_fill", "smoothed_marker_color", "smoothed_marker_range_mode", "smoothed_line_color",
     "background_color", "grid_color", "title_color", "axis_label_color",
     "tick_label_color", "legend_text_color", "info_box_text_color", "tick_color",
     "tick_direction", "x_axis_mode"}

\* The value each variable is constructed with, as Tcl holds it.
Defaults ==
    [fig_width |-> <<"1", "2", ".", "0">>,
     fig_height |-> <<"6", ".", "0">>,
     fig_dpi |-> <<"1", "0", "0">>,
     show_legend |-> <<"1">>,
     show_info_box |-> <<"1">>,
     info_box_position |-> <<"l", "e", "f", "t">>,
     custom_title |-> <<>>,
     show_raw_data |-> <<"1">>,
     show_raw_markers |-> <<"1">>,
     raw_marker_shape |-> <<"s", "q", "u", "a", "r", "e">>,
     raw_marker_fill |-> <<"h", "o", "l", "l", "o", "w">>,
     raw_marker_color |-> <<"b", "l", "a", "c", "k">>,
     raw_marker_size |-> <<"2", ".", "0">>,
     raw_marker_edge_width |-> <<"1", ".", "0">>,
     raw_marker_range_enabled |-> <<"1">>,
     raw_marker_range_mode |-> <<"c", "h", "a", "n", "n", "e", "l">>,
     raw_marker_range_min |-> <<"0", ".", "0">>,
     raw_marker_range_max |-> <<"2", "0", "0", ".", "0">>,
     show_raw_line |-> <<"0">>,
     raw_line_color |-> <<"b", "l", "u", "e">>,
     raw_line_width |-> <<"1", ".", "0">>,
     raw_line_alpha |-> <<"1", ".", "0">>,
     show_smoothed_data |-> <<"1">>,
     show_smoothed_markers |-> <<"1">>,
     smoothed_marker_shape |-> <<"t", "r", "i", "a", "n", "g", "l", "e">>,
     smoothed_marker_fill |-> <<"h", "o", "l", "l", "o", "w">>,
     smoothed_marker_color |-> <<"o", "r", "a", "n", "g", "e">>,
     smoothed_marker_size |-> <<"3", ".", "0">>,
     smoothed_marker_edge_width |-> <<"1", ".", "0">>,
     smoothed_marker_range_enabled |-> <<"1">>,
     smoothed_marker_range_mode |-> <<"c", "h", "a", "n", "n", "e", "l">>,
     smoothed_marker_range_min |-> <<"2", "0", "0", ".", "0">>,
     smoothed_marker_range_max |-> <<"4", "0", "0", ".", "0">>,
     show_smoothed_line |-> <<"1">>,
     smoothed_line_color |-> <<"r", "e", "d">>,
     smoothed_line_width |-> <<"1", ".", "0">>,
     smoothed_line_alpha |-> <<"1", ".", "0">>,
     background_color |-> <<"w", "h", "i", "t", "e">>,
     grid_color |-> <<"w", "h", "i", "t", "e">>,
     show_grid |-> <<"1">>,
     title_size |-> <<"1", "6", ".", "0">>,
     axis_label_size |-> <<"1", "2", ".", "0">>,
     tick_label_size |-> <<"1", "0", ".", "0">>,
     legend_size |-> <<"1", "0", ".", "0">>,
     info_box_size |-> <<"1", "0", ".", "0">>,
     title_color |-> <<"b", "l", "a", "c", "k">>,
     axis_label_color |-> <<"b", "l", "a", "c", "k">>,
     tick_label_color |-> <<"b", "l", "a", "c", "k">>,
     legend_text_color |-> <<"b", "l", "a", "c", "k">>,
     info_box_text_color |-> <<"b", "l", "a", "c", "k">>,
     tick_length |-> <<"6", ".", "0">>,
     tick_width |-> <<"1", ".", "0">>,
     tick_color |-> <<"b", "l", "a", "c", "k">>,
     tick_direction |-> <<"i", "n">>,
     x_axis_mode |-> <<"e", "n", "e", "r", "g", "y">>,
     channel_min |-> <<>>,
     channel_max |-> <<>>,
     energy_min |-> <<>>,
     energy_max |-> <<>>,
     counts_min |-> <<>>,
     counts_max |-> <<>>]

\* lines 762-828: the (key, attribute) pairs of get_current_settings.
GetPairs ==
    <<<<"figure_width", "fig_width">>, <<"figure_height", "fig_height">>,
      <<"dpi", "fig_dpi">>, <<"custom_title", "custom_title">>,
      <<"show_legend", "show_legend">>, <<"show_info_box", "show_info_box">>,
      <<"info_box_position", "info_box_position">>, <<"show_raw_data", "show_raw_data">>,
      <<"show_raw_markers", "show_raw_markers">>, <<"raw_marker_shape", "raw_marker_shape">>,
      <<"raw_marker_fill", "raw_marker_fill">>, <<"raw_marker_color", "raw_marker_color">>,
      <<"raw_marker_size", "raw_marker_size">>, <<"raw_marker_edge_width", "raw_marker_edge_width">>,
      <<"raw_marker_range_enabled", "raw_marker_range_enabled">>, <<"raw_marker_range_mode", "raw_marker_range_mode">>,
      <<"raw_marker_range_min", "raw_marker_range_min">>, <<"raw_marker_range_max", "raw_marker_range_max">>,
      <<"show_raw_line", "show_raw_line">>, <<"raw_line_color", "raw_line_color">>,
      <<"raw_line_width", "raw_line_width">>, <<"raw_line_alpha", "raw_line_alpha">>,
      <<"show_smoothed_data", "show_smoothed_data">>, <<"show_smoothed_markers", "show_smoothed_markers">>,
      <<"smoothed_marker_shape", "smoothed_marker_shape">>, <<"smoothed_marker_fill", "smoothed_marker_fill">>,
      <<"smoothed_marker_color", "smoothed_marker_color">>, <<"smoothed_marker_size", "smoothed_marker_size">>,
      <<"smoothed_marker_edge_width", "smoothed_marker_edge_width">>, <<"smoothed_marker_range_enabled", "smoothed_marker_range_enabled">>,
      <<"smoothed_marker_range_mode", "smoothed_marker_range_mode">>, <<"smoothed_marker_range_min", "smoothed_marker_range_min">>,
      <<"smoothed_marker_range_max", "smoothed_marker_range_max">>, <<"show_smoothed_line", "show_smoothed_line">>,
      <<"smoothed_line_color", "smoothed_line_color">>, <<"smoothed_line_width", "smoothed_line_width">>,
      <<"smoothed_line_alpha", "smoothed_line_alpha">>, <<"background_color", "background_color">>,
      <<"show_grid", "show_grid">>, <<"grid_color", "grid_color">>,
      <<"title_size", "title_size">>, <<"axis_label_size", "axis_label_size">>,
      <<"tick_label_size", "tick_label_size">>, <<"legend_size", "legend_size">>,
      <<"info_box_size", "info_box_size">>, <<"title_color", "title_color">>,
      <<"axis_label_color", "axis_label_color">>, <<"tick_label_color", "tick_label_color">>,
      <<"legend_text_color", "legend_text_color">>, <<"info_box_text_color", "info_box_text_color">>,
      <<"tick_length", "tick_length">>, <<"tick_width", "tick_width">>,
      <<"tick_color", "tick_color">>, <<"tick_direction", "tick_direction">>,
      <<"x_axis_mode", "x_axis_mode">>, <<"channel_min", "channel_min">>,
      <<"channel_max", "channel_max">>, <<"energy_min", "energy_min">>,
      <<"energy_max", "energy_max">>, <<"counts_min", "counts_min">>,
      <<"counts_max", "counts_max">>>>

\* lines 834-898: the (key, attribute) pairs of apply_settings.
ApplyPairs ==
    <<<<"figure_width", "fig_width">>, <<"figure_height", "fig_height">>,
      <<"dpi", "fig_dpi">>, <<"custom_title", "custom_title">>,
      <<"show_legend", "show_legend">>, <<"show_info_box", "show_info_box">>,
      <<"info_box_position", "info_box_position">>, <<"show_raw_data", "show_raw_data">>,
      <<"show_raw_markers", "show_raw_markers">>, <<"raw_marker_shape", "raw_marker_shape">>,
      <<"raw_marker_fill", "raw_marker_fill">>, <<"raw_marker_color", "raw_marker_color">>,
      <<"raw_marker_size", "raw_marker_size">>, <<"raw_marker_edge_width", "raw_marker_edge_width">>,
      <<"raw_marker_range_enabled", "raw_marker_range_enabled">>, <<"raw_marker_range_mode", "raw_marker_range_mode">>,
      <<"raw_marker_range_min", "raw_marker_range_min">>, <<"raw_marker_range_max", "raw_marker_range_max">>,
      <<"show_raw_line", "show_raw_line">>, <<"raw_line_color", "raw_line_color">>,
      <<"raw_line_width", "raw_line_width">>, <<"raw_line_alpha", "raw_line_alpha">>,
      <<"show_smoothed_data", "show_smoothed_data">>, <<"show_smoothed_markers", "show_smoothed_markers">>,
      <<"smoothed_marker_shape", "smoothed_marker_shape">>, <<"smoothed_marker_fill", "smoothed_marker_fill">>,
      <<"smoothed_marker_color", "smoothed_marker_color">>, <<"smoothed_marker_size", "smoothed_marker_size">>,
      <<"smoothed_marker_edge_width", "smoothed_marker_edge_width">>, <<"smoothed_marker_range_enabled", "smoothed_marker_range_enabled">>,
      <<"smoothed_marker_range_mode", "smoothed_marker_range_mode">>, <<"smoothed_marker_range_min", "smoothed_marker_range_min">>,
      <<"smoothed_marker_range_max", "smoothed_marker_range_max">>, <<"show_smoothed_line", "show_smoothed_line">>,
      <<"smoothed_line_color", "smoothed_line_color">>, <<"smoothed_line_width", "smoothed_line_width">>,
      <<"smoothed_line_alpha", "smoothed_line_alpha">>, <<"background_color", "background_color">>,
      <<"show_grid", "show_grid">>, <<"grid_color", "grid_color">>,
      <<"title_size", "title_size">>, <<"axis_label_size", "axis_label_size">>,
      <<"tick_label_size", "tick_label_size">>, <<"legend_size", "legend_size">>,
      <<"info_box_size", "info_box_size">>, <<"title_color", "title_color">>,
      <<"axis_label_color", "axis_label_color">>, <<"tick_label_color", "tick_label_color">>,
      <<"legend_text_color", "legend_text_color">>, <<"info_box_text_color", "info_box_text_color">>,
      <<"tick_length", "tick_length">>, <<"tick_width", "tick_width">>,
      <<"tick_color", "tick_color">>, <<"tick_direction", "tick_direction">>,
      <<"x_axis_mode", "x_axis_mode">>, <<"channel_min", "channel_min">>,
      <<"channel_max", "channel_max">>, <<"energy_min", "energy_min">>,
      <<"energy_max", "energy_max">>, <<"counts_min", "counts_min">>,
      <<"counts_max", "counts_max">>>>

\* lines 617-688: the attributes generate_plot reads for params, in order.
ParamAttrs ==
    <<"custom_title", "fig_width", "fig_height", "fig_dpi",
      "show_legend", "show_info_box", "info_box_position", "info_box_x_offset",
      "info_box_y_offset", "show_raw_data", "show_raw_markers", "raw_marker_shape",
      "raw_marker_fill", "raw_marker_color", "raw_marker_size", "raw_marker_edge_width",
      "raw_marker_range_enabled", "raw_marker_range_mode", "raw_marker_range_min", "raw_marker_range_max",
      "show_raw_line", "raw_line_color", "raw_line_width", "raw_line_alpha",
      "show_smoothed_data", "show_smoothed_markers", "smoothed_marker_shape", "smoothed_marker_fill",
      "smoothed_marker_color", "smoothed_marker_size", "smoothed_marker_edge_width", "smoothed_marker_range_enabled",
      "smoothed_marker_range_mode", "smoothed_marker_range_min", "smoothed_marker_range_max", "show_smoothed_line",
      "smoothed_line_color", "smoothed_line_width", "smoothed_line_alpha", "background_color",
      "show_grid", "grid_color", "title_size", "axis_label_size",
      "tick_label_size", "legend_size", "info_box_size", "title_color",
      "axis_label_color", "tick_label_color", "legend_text_color", "info_box_text_color",
      "tick_length", "tick_width", "tick_color", "tick_direction",
      "x_axis_mode", "channel_min", "channel_max", "energy_min",
      "energy_max", "counts_min", "counts_max">>

\* The attributes __init__ and the create_*_tab methods assign.
Attributes ==
    DoubleVars \cup IntVars \cup OptionalVars \cup BooleanVars \cup StringVars
        \cup {"current_file", "last_fig"}

\* Variable.get() on the text Tcl holds: DoubleVar.get is getdouble, IntVar.get
\* is getint falling back to int(getdouble), BooleanVar.get is getboolean,
\* StringVar.get the text itself.  ok = FALSE is a TclError.
var_get(a, text) ==
    IF a \in DoubleVars \cup IntVars
    THEN The({ [ok |-> d.ok, val |-> IF a \in IntVars THEN PyInt(py_int(d.n)) ELSE PyFloat(d.n)] :
               d \in {py_float(text)} })
    ELSE IF a \in BooleanVars
    THEN [ok |-> text \in {<<"0">>, <<"1">>}, val |-> PyBool(text = <<"1">>)]
    ELSE [ok |-> TRUE, val |-> PyStr(text)]

\* lines 585-596: get_optional_float.
get_optional_float(text) ==
    The({ IF val = <<>> \/ ~py_float(val).ok THEN [none |-> TRUE, n |-> 0]
          ELSE [none |-> FALSE, n |-> py_float(val).n] :
          val \in {replace_comma(strip(text))} })

\* json.dump of one value: the token written.
json_dump(val) ==
    CASE val.t = "float" -> [j |-> "number", text |-> repr_float(val.n)]
      [] val.t = "int" -> [j |-> "number", text |-> str_int(val.n)]
      [] val.t = "str" -> [j |-> "string", text |-> val.s]
      [] val.t = "bool" -> [j |-> IF val.n = 1 THEN "true" ELSE "false", text |-> <<>>]

\* json.load of one token: a number with a point or an exponent is a float,
\* any other number an int.
json_load(tok) ==
    CASE tok.j = "number" ->
            The({ IF \E i \in 1..Len(tok.text) : tok.text[i] \in {".", "e", "E"}
                  THEN PyFloat(number)
                  ELSE PyInt(py_int(number)) :
                  number \in {float(tok.text)} })
      [] tok.j = "string" -> PyStr(tok.text)
      [] tok.j = "true" -> PyBool(TRUE)
      [] tok.j = "false" -> PyBool(FALSE)

RECURSIVE pair_keys(_)
pair_keys(ps) == IF ps = <<>> THEN {} ELSE {Head(ps)[1]} \cup pair_keys(Tail(ps))

\* The attribute a list of pairs gives for a key.
attr_of(ps, k) == ps[CHOOSE i \in 1..Len(ps) : ps[i][1] = k][2]

\* lines 760-829: get_current_settings, the dict of every var.get(); a
\* TclError of any get leaves ok = FALSE.
get_current_settings(tk) ==
    The({ IF \A k \in DOMAIN got : got[k].ok
          THEN [ok |-> TRUE, dict |-> [k \in DOMAIN got |-> got[k].val]]
          ELSE [ok |-> FALSE, dict |-> [k \in {} |-> PyStr(<<>>)]] :
          got \in { [k \in pair_keys(GetPairs) |->
                       var_get(attr_of(GetPairs, k), tk[attr_of(GetPairs, k)])] } })

\* lines 831-898 for a list of (key, attribute) statements: each key present
\* in settings is set on its variable, the last statement on a variable
\* deciding; a statement on an attribute that does not exist raises and
\* ends the method there.
apply_pairs(ps, tk, settings) ==
    LET bad == {i \in 1..Len(ps) : ps[i][1] \in DOMAIN settings /\ ps[i][2] \notin Attributes}
        stop == IF bad = {} THEN Len(ps) + 1
                ELSE CHOOSE i \in bad : \A k \in bad : i <= k
        hits(a) == {i \in 1..(stop - 1) : ps[i][2] = a /\ ps[i][1] \in DOMAIN settings}
        last(a) == CHOOSE i \in hits(a) : \A k \in hits(a) : k <= i
    IN [ok |-> bad = {},
        tk |-> [a \in DOMAIN tk |->
                  IF hits(a) = {} THEN tk[a] ELSE var_set(settings[ps[last(a)][1]])]]

\* apply_settings without its first statement.
apply_settings_short(tk, settings) ==
    apply_pairs(Tail(ApplyPairs), tk, settings)

apply_settings(tk, settings) == apply_pairs(ApplyPairs, tk, settings)

\* lines 709-711: json.dump(preset, f).
dump_preset(dict) == [k \in DOMAIN dict |-> json_dump(dict[k])]

\* lines 726-727: json.load(f).
load_json(file) == [k \in DOMAIN file |-> json_load(file[k])]

\* ============================================== apply_marker_range
\* c >= num / den and c <= num / den for den # 0, without dividing.  The
\* quotient Python computes is correctly rounded, so for the small integers
\* drawn it compares with a channel as the exact quotient does.
ge_ratio(c, num, den) == IF den > 0 THEN c * den >= num ELSE c * den <= num

lt_ratio(c, num, den) == IF den > 0 THEN c * den < num ELSE c * den > num

le_ratio(c, num, den) == IF den > 0 THEN c * den <= num ELSE c * den >= num

\* a[mask] of numpy.
RECURSIVE boolean_index(_, _)
boolean_index(a, mask) ==
    IF a = <<>> THEN <<>>
    ELSE (IF Head(mask) THEN <<Head(a)>> ELSE <<>>) \o boolean_index(Tail(a), Tail(mask))

Energy == <<"e", "n", "e", "r", "g", "y">>

Channel == <<"c", "h", "a", "n", "n", "e", "l">>

Returned(chs, cts) == [kind |-> "arrays", channels |-> chs, counts |-> cts]

NoneNone == [kind |-> "None", channels |-> <<>>, counts |-> <<>>]

ZeroDivisionError == [kind |-> "ZeroDivisionError", channels |-> <<>>, counts |-> <<>>]

\* nra_converter_v3.py lines 214-237: the range is in channels.
apply_marker_range_v3(chs, cts, enabled, rmin, rmax) ==
    IF ~enabled THEN Returned(chs, cts)
    ELSE LET mask == [i \in 1..Len(chs) |-> chs[i] >= rmin /\ chs[i] <= rmax]
         IN IF ~\E i \in 1..Len(chs) : mask[i] THEN NoneNone
            ELSE Returned(boolean_index(chs, mask), boolean_index(cts, mask))

\* xnra_main_v4.py lines 111-130 and nra_converter_v5.py lines 232-253.
apply_marker_range(chs, cts, enabled, mode, rmin, rmax, offset, gain) ==
    IF ~enabled THEN Returned(chs, cts)
    ELSE IF lower(mode) = Energy /\ gain = 0 THEN ZeroDivisionError
    ELSE LET energy == lower(mode) = Energy
             den == IF energy THEN gain ELSE 1
             num_min == IF energy THEN rmin - offset ELSE rmin
             num_max == IF energy THEN rmax - offset ELSE rmax
             mask == [i \in 1..Len(chs) |->
                        ge_ratio(chs[i], num_min, den) /\ le_ratio(chs[i], num_max, den)]
         IN IF ~\E i \in 1..Len(chs) : mask[i] THEN NoneNone
            ELSE Returned(boolean_index(chs, mask), boolean_index(cts, mask))

\* ===================================================== profile pipeline
\* One profile taken through the per-file computations of main (v1 line 361,
\* v3 lines 512-518).
VARIABLES x, z, pc, v, h_width, idxs, vl, vr, wref, match_x, w, v_high, v_low

profVars == <<x, z, pc, v, h_width, idxs, vl, vr, wref, match_x, w, v_high, v_low>>

\* load_profile_txt: the lines of the file, the number of lines read, the
\* lists xs and zs, the position in the function, the returned <<x, z>>.
VARIABLES f, nread, xs, zs, lpc, ret

loadVars == <<f, nread, xs, zs, lpc, ret>>

\* main: the script run (v1 or v3), the folder (a folder or not, its entries
\* and their lines), files, the number of files attempted, per_file, the
\* metric lists, plot_paths, the console's per-file lines, the presets chosen
\* at the prompts, the position in main.
VARIABLES script, is_dir, dir, files, i_file, per_file, vamps, vlamps, vramps,
          vhamps, vloamps, hamps, wamps, plot_paths, console, decimal_sep,
          csv_delimiter, scale, unit, bpc

\* The answer typed at the delimiter prompt, the summary statistics (one
\* (mean, sd, n) per metric), the results CSV (its delimiter and rows), and
\* the histograms v1 saves.
VARIABLES delimiter_answer, stats, csv, hist_saved

reportVars == <<stats, csv, hist_saved>>

NoCsv == [delimiter |-> "", rows |-> <<>>]

listVars == <<vamps, vlamps, vramps, vhamps, vloamps, hamps, wamps, plot_paths>>
presetVars == <<decimal_sep, csv_delimiter, scale, unit>>
batchVars == <<script, is_dir, dir, files, i_file, per_file, listVars, console,
               presetVars, bpc, delimiter_answer, reportVars>>

\* width_metric taken step by step: who calls it, the spline cs, the signs of
\* z_dense, sign_changes, best, the match point and the width w (enclosures,
\* in units of 1 / (n_eval - 1)), where the match point comes from, the
\* position in the function.  Its arguments are x, z and idxs, its reference
\* choice is wref.
VARIABLES caller, cs, z_dense, sign_changes, best, wm_match, wm_w, wm_src, wpc

widthVars == <<caller, cs, z_dense, sign_changes, best, wm_match, wm_w, wm_src, wpc>>

\* mean_sd called on its own: the argument, the returned triple, and where
\* the call is.
VARIABLES values, mean_sd_ret, mpc

statVars == <<values, mean_sd_ret, mpc>>

\* The GUI (xnra_gui_v5.py): the selected file, the last figure (<<>> is
\* None), the text Tcl holds for every setting variable (an Entry shows and
\* edits the text of its textvariable), the last message box, what the last
\* validation returned, the preset files and the exported plots on disk, the
\* number of generate_plot calls that stored no figure.
VARIABLES current_file, last_fig, tkvars, message, validate_ret, disk, exported,
          failed_plots, gpc

guiVars ==
    <<current_file, last_fig, tkvars, message, validate_ret, disk, exported,
      failed_plots, gpc>>

\* One call of apply_marker_range.
VARIABLES channels, counts, range_args, marker_ret, marker_pc

markerVars == <<channels, counts, range_args, marker_ret, marker_pc>>

vars == <<profVars, loadVars, batchVars, widthVars, statVars, guiVars, markerVars>>

NoArgs ==
    [version |-> "none", enabled |-> FALSE, mode |-> <<>>, rmin |-> 0, rmax |-> 0,
     offset |-> 0, gain |-> 0]

MarkerIdle ==
    /\ channels = <<>> /\ counts = <<>> /\ range_args = NoArgs
    /\ marker_ret = NoneNone /\ marker_pc = "idle"

NoMessage == <<"", "", "">>

NoPresets == [name \in {} |-> <<>>]

GuiIdle ==
    /\ current_file = "" /\ last_fig = <<>> /\ tkvars = Defaults
    /\ message = NoMessage /\ validate_ret = "none" /\ disk = NoPresets
    /\ exported = {} /\ failed_plots = 0 /\ gpc = "idle"


StatIdle ==
    /\ values = <<>> /\ mean_sd_ret = <<>> /\ mpc = "idle"

NoSpline == [a3 |-> 0, a2 |-> 0, a1 |-> 0, a0 |-> 0]

WidthIdle ==
    /\ caller = "none" /\ cs = NoSpline /\ z_dense = <<>> /\ sign_changes = <<>>
    /\ best = 0 /\ wm_match = <<0, 0>> /\ wm_w = <<0, 0>> /\ wm_src = "none"
    /\ wpc = "idle"

BatchIdle ==
    /\ script = "none" /\ is_dir = FALSE /\ dir = <<>> /\ files = <<>>
    /\ i_file = 0 /\ per_file = <<>>
    /\ vamps = <<>> /\ vlamps = <<>> /\ vramps = <<>> /\ vhamps = <<>>
    /\ vloamps = <<>> /\ hamps = <<>> /\ wamps = <<>> /\ plot_paths = <<>>
    /\ console = <<>>
    /\ decimal_sep = "" /\ csv_delimiter = "" /\ scale = 0 /\ unit = ""
    /\ delimiter_answer = <<>> /\ stats = <<>> /\ csv = NoCsv /\ hist_saved = <<>>
    /\ bpc = "idle"

LoadIdle ==
    /\ f = <<>> /\ nread = 0 /\ xs = <<>> /\ zs = <<>>
    /\ lpc = "idle" /\ ret = <<<<>>, <<>>>>

RECURSIVE x_from_gaps(_, _)
x_from_gaps(g, acc) ==
    IF Len(acc) > Len(g) THEN acc
    ELSE x_from_gaps(g, Append(acc, acc[Len(acc)] + g[Len(acc)]))

\* The profiles of the specification's worked examples.
ScenarioProfiles ==
    { <<<<0, 1, 2, 3, 4, 5, 6>>, <<0, 3, 1, -2, 1, 4, 0>>>>,
      <<<<0, 1, 2, 3, 4, 5, 6, 7>>, <<1, 5, 5, 5, 0, 5, 5, 1>>>> }

\* Profiles as load_profile_txt returns them: at least 3 samples, x ascending.
DrawnProfile(xx, zz) ==
    \/ \E p \in ScenarioProfiles : xx = p[1] /\ zz = p[2]
    \/ \E n \in 3..MaxLen : \E g \in [1..(n - 1) -> Gaps] :
          /\ xx = x_from_gaps(g, <<0>>)
          /\ zz \in [1..n -> ZVals]

NoWidth == [ref_idx |-> 0, ref_z |-> 0, search_side |-> "none", x_lo |-> 0, x_hi |-> 0]

ProfileInit ==
    /\ DrawnProfile(x, z)
    /\ pc = "ptp"
    /\ v = 0 /\ h_width = 0 /\ idxs = <<0, 0, 0>>
    /\ vl = 0 /\ vr = 0 /\ wref = NoWidth /\ match_x = <<0, 0>> /\ w = <<0, 0>>
    /\ v_high = 0 /\ v_low = 0
    /\ LoadIdle
    /\ BatchIdle
    /\ WidthIdle
    /\ StatIdle
    /\ GuiIdle
    /\ MarkerIdle

\* v1 main line 361: v = vertical_amplitude_ptp(z)
PeakToPeak ==
    /\ pc = "ptp"
    /\ v' = vertical_amplitude_ptp(z)
    /\ pc' = "amp"
    /\ UNCHANGED <<x, z, h_width, idxs, vl, vr, wref, match_x, w, v_high, v_low>>
    /\ UNCHANGED <<loadVars, batchVars, widthVars, statVars, guiVars, markerVars>>

\* line 512: h_width, idxs = horizontal_amplitude_around_min(x, z)
HorizontalAmplitude ==
    /\ pc = "amp"
    /\ LET r == horizontal_amplitude_around_min(x, z)
       IN h_width' = r[1] /\ idxs' = r[2]
    /\ pc' = "vert"
    /\ UNCHANGED <<x, z, v, vl, vr, wref, match_x, w, v_high, v_low>>
    /\ UNCHANGED <<loadVars, batchVars, widthVars, statVars, guiVars, markerVars>>

\* line 513: vl, vr = vertical_amplitudes_left_right(x, z, idxs)
VerticalAmplitudes ==
    /\ pc = "vert"
    /\ LET r == vertical_amplitudes_left_right(z, idxs)
       IN vl' = r[1] /\ vr' = r[2]
    /\ pc' = "width"
    /\ UNCHANGED <<x, z, v, h_width, idxs, wref, match_x, w, v_high, v_low>>
    /\ UNCHANGED <<loadVars, batchVars, widthVars, statVars, guiVars, markerVars>>

\* line 514: w, w_ref, w_match_pt, spline = width_metric(x, z, idxs)
WidthMetric ==
    /\ pc = "width"
    /\ spline_ok(x)
    /\ LET r == width_reference(x, z, idxs)
       IN /\ wref' = r
          /\ \E m \in width_match_points(x, r, idxs) :
                /\ match_x' = m
                /\ w' = abs_diff_enclosure(m[1], m[2], Py(x, r.ref_idx))
    /\ pc' = "highlow"
    /\ UNCHANGED <<x, z, v, h_width, idxs, vl, vr, v_high, v_low>>
    /\ UNCHANGED <<loadVars, batchVars, widthVars, statVars, guiVars, markerVars>>

\* line 139: CubicSpline raises on x that is not strictly increasing.
WidthMetricRaises ==
    /\ pc = "width"
    /\ ~spline_ok(x)
    /\ wref' = width_reference(x, z, idxs)
    /\ pc' = "raised"
    /\ UNCHANGED <<x, z, v, h_width, idxs, vl, vr, match_x, w, v_high, v_low>>
    /\ UNCHANGED <<loadVars, batchVars, widthVars, statVars, guiVars, markerVars>>

\* lines 517-518: v_high = max(vl, vr); v_low = min(vl, vr)
HighLow ==
    /\ pc = "highlow"
    /\ v_high' = Max2(vl, vr)
    /\ v_low' = Min2(vl, vr)
    /\ pc' = "done"
    /\ UNCHANGED <<x, z, v, h_width, idxs, vl, vr, wref, match_x, w>>
    /\ UNCHANGED <<loadVars, batchVars, widthVars, statVars, guiVars, markerVars>>

ProfileNext ==
    \/ PeakToPeak
    \/ HorizontalAmplitude
    \/ VerticalAmplitudes
    \/ WidthMetric
    \/ WidthMetricRaises
    \/ HighLow

SpecProfile == ProfileInit /\ [][ProfileNext]_vars

\* Stages of the pipeline at which a result is available.
HasIdxs == pc \in {"vert", "width", "highlow", "done", "raised"}

HasVertical == pc \in {"width", "highlow", "done", "raised"}

HasWidthRef == pc \in {"highlow", "done", "raised"}

LastIndex == Len(z) - 1

i_left == idxs[1]

i_min == idxs[2]

i_right == idxs[3]

\* ------------------------------------------------------------------ C1
\* C1: for every profile of at least 3 samples the indices returned by
\* find_local_maxima_around_min satisfy 0 <= i_left <= i_min <= i_right <= len(z)-1.
C1_ExtremaOrdered ==
    HasIdxs => /\ Len(z) >= 3
               /\ 0 <= i_left /\ i_left <= i_min
               /\ i_min <= i_right /\ i_right <= Len(z) - 1

\* A profile whose minimum lies strictly between two maxima, the global
\* maximum lying right of the minimum.
C1_Witness ==
    /\ HasIdxs
    /\ i_left < i_min /\ i_min < i_right
    /\ Py(z, i_right) > Py(z, i_left)

\* ------------------------------------------------------------------ C2
\* The indices of [lo, hi] at which zz is the maximum of zz over [lo, hi].
MaxPositions(zz, lo, hi) ==
    { i \in lo..hi : \A j \in lo..hi : Py(zz, j) <= Py(zz, i) }

SetMax(S) == CHOOSE m \in S : \A k \in S : k <= m

SetMin(S) == CHOOSE m \in S : \A k \in S : m <= k

PlateauZ == <<1, 5, 5, 5, 0, 5, 5, 1>>

\* C2: plateau tie-break.  With i_min > 0, i_left is the largest index of
\* [0, i_min] holding the maximum of z over [0, i_min] (0 when i_min = 0); with
\* i_min < last, i_right is the smallest index of [i_min, last] holding the
\* maximum of z over [i_min, last] (last when i_min = last).  For
\* z = [1,5,5,5,0,5,5,1] this gives i_left = 3 and i_right = 5.
C2_PlateauTieBreak ==
    HasIdxs =>
        /\ i_min > 0 => i_left = SetMax(MaxPositions(z, 0, i_min))
        /\ i_min = 0 => i_left = 0
        /\ i_min < LastIndex => i_right = SetMin(MaxPositions(z, i_min, LastIndex))
        /\ i_min = LastIndex => i_right = LastIndex
        /\ z = PlateauZ => i_left = 3 /\ i_right = 5

\* The plateau example, located.
C2_Witness == HasIdxs /\ z = PlateauZ /\ i_min = 4

\* ------------------------------------------------------------------ C3
\* C3: i_min is the lowest index at which z attains its minimum:
\* z[i_min] <= z[j] for every j, and z[j] > z[i_min] for every j < i_min.
C3_FirstMinimum ==
    HasIdxs =>
        /\ i_min \in 0..LastIndex
        /\ \A j \in 0..LastIndex : Py(z, i_min) <= Py(z, j)
        /\ \A j \in 0..(i_min - 1) : Py(z, j) > Py(z, i_min)

\* A profile whose minimum is attained more than once.
C3_Witness ==
    /\ HasIdxs
    /\ \E j \in 0..LastIndex : j > i_min /\ Py(z, j) = Py(z, i_min)

\* ------------------------------------------------------------------ C4
EndToEndX == <<0, 1, 2, 3, 4, 5, 6>>

EndToEndZ == <<0, 3, 1, -2, 1, 4, 0>>

\* C4: v_left = z[i_left] - z[i_min], v_right = z[i_right] - z[i_min], the
\* horizontal amplitude is |x[i_right] - x[i_left]|; for x = [0..6],
\* z = [0,3,1,-2,1,4,0] the pipeline yields i_min = 3, i_left = 1, i_right = 5,
\* verticalAmplitude = 6, v_left = 5, v_right = 6, horizontalAmplitude = 4.
C4_Amplitudes ==
    HasVertical =>
        /\ vl = Py(z, i_left) - Py(z, i_min)
        /\ vr = Py(z, i_right) - Py(z, i_min)
        /\ h_width = Abs(Py(x, i_right) - Py(x, i_left))
        /\ (x = EndToEndX /\ z = EndToEndZ) =>
              /\ i_min = 3 /\ i_left = 1 /\ i_right = 5
              /\ v = 6 /\ vl = 5 /\ vr = 6 /\ h_width = 4

\* The end-to-end example, taken through the whole pipeline.
C4_Witness == pc = "done" /\ x = EndToEndX /\ z = EndToEndZ /\ h_width = 4

\* ------------------------------------------------------------------ C5
\* C5: 0 <= V_Low <= V_High <= verticalAmplitude, with V_High = max(v_left,
\* v_right), V_Low = min(v_left, v_right) and verticalAmplitude the global
\* max z - global min z; v_left >= 0 and v_right >= 0, also when the global
\* minimum is the first or the last sample.
C5_AmplitudeBounds ==
    /\ HasVertical => vl >= 0 /\ vr >= 0
    /\ pc = "done" =>
          /\ v_high = Max2(vl, vr) /\ v_low = Min2(vl, vr)
          /\ v = np_max(z) - np_min(z)
          /\ 0 <= v_low /\ v_low <= v_high /\ v_high <= v

\* The global minimum is the last sample: the right amplitude is 0 and the
\* left one is the whole peak-to-peak amplitude.
C5_Witness ==
    /\ pc = "done" /\ i_min = LastIndex
    /\ v_low = 0 /\ v_high > 0 /\ v_high = v

\* ----------------------------------------------------------------- C10
\* C10: width_metric takes as reference the local maximum with the smaller
\* z: ref_idx = i_left and ref_z = z[i_left] when z[i_left] <= z[i_right] (a
\* tie selects the left), otherwise ref_idx = i_right and ref_z = z[i_right];
\* the search side is the side of the global minimum opposite to the
\* reference.
C10_ReferenceSide ==
    HasWidthRef =>
        /\ Py(z, i_left) <= Py(z, i_right) =>
              /\ wref.ref_idx = i_left /\ wref.ref_z = Py(z, i_left)
              /\ wref.search_side = "right"
              /\ wref.x_lo = Py(x, i_min) /\ wref.x_hi = Py(x, LastIndex)
        /\ Py(z, i_left) > Py(z, i_right) =>
              /\ wref.ref_idx = i_right /\ wref.ref_z = Py(z, i_right)
              /\ wref.search_side = "left"
              /\ wref.x_lo = Py(x, 0) /\ wref.x_hi = Py(x, i_min)
        /\ wref.ref_z = Min2(Py(z, i_left), Py(z, i_right))
        /\ wref.search_side = "right" => wref.ref_idx <= i_min
        /\ wref.search_side = "left" => wref.ref_idx >= i_min

\* Two distinct local maxima of equal height: the left one is the reference.
C10_Witness ==
    /\ pc = "done"
    /\ i_left < i_min /\ i_min < i_right
    /\ Py(z, i_left) = Py(z, i_right)
    /\ wref.ref_idx = i_left /\ wref.search_side = "right"

\* ====================================================== load_profile_txt
\* Longest body of a drawn line without a prefix / behind a prefix, and the
\* longest drawn file of the listed lines.
MaxBody == 5

MaxPrefixed == 3

MaxLines == 4

\* line 68: fewer than 3 samples is not enough.
MinSamples == 3

BodyChars == {"1", ".", "-", "e", " "}

Prefixes ==
    { <<" ">>, <<"#">>, <<" ", ";">>, <<"g">>, Gwyddion,
      <<"G", "w", "y", "d", "d", "i", "o", "n">> }

\* The strings of n body characters.
Bodies(n) == [1..n -> BodyChars]

\* The two numbers of a line that has them are values the model holds.
line_in_range(line) ==
    LET nums == findall(strip(line))
    IN Len(nums) >= 2 => representable(nums[1]) /\ representable(nums[2])

\* A line as iterating over the file yields it, the line break included.
Line(prefix, body) == prefix \o body \o <<"\n">>

DataLine(a, b) == <<a, " ", b, "\n">>

\* A comment and four data lines, two of them with the same x.
FileLines ==
    { <<"#", "1", " ", "1", "\n">>,
      DataLine("1", "1"), DataLine("1", "2"), DataLine("2", "1"), DataLine("0", "3") }

\* The drawn files: up to MaxLines of the listed lines, or one line made of
\* body characters, alone or behind a prefix.
DrawnFile(file) ==
    \/ \E n \in 0..MaxLines : file \in [1..n -> FileLines]
    \/ \E n \in 0..MaxBody : \E b \in Bodies(n) :
          line_in_range(Line(<<>>, b)) /\ file = <<Line(<<>>, b)>>
    \/ \E p \in Prefixes, n \in 0..MaxPrefixed : \E b \in Bodies(n) :
          line_in_range(Line(p, b)) /\ file = <<Line(p, b)>>

ProfileIdle ==
    /\ x = <<>> /\ z = <<>> /\ pc = "idle"
    /\ v = 0 /\ h_width = 0 /\ idxs = <<0, 0, 0>>
    /\ vl = 0 /\ vr = 0 /\ wref = NoWidth /\ match_x = <<0, 0>> /\ w = <<0, 0>>
    /\ v_high = 0 /\ v_low = 0

LoadInit ==
    /\ f = <<>>
    /\ nread = 0 /\ xs = <<>> /\ zs = <<>>
    /\ lpc = "open" /\ ret = <<<<>>, <<>>>>
    /\ ProfileIdle
    /\ BatchIdle
    /\ WidthIdle
    /\ StatIdle
    /\ GuiIdle
    /\ MarkerIdle

\* The threshold missed by one.
not_enough_le(samples) == Len(samples) <= MinSamples

\* line 68: len(xs) < 3
not_enough(samples) == Len(samples) < MinSamples

\* The index sequences (0-based) of length n without repetition.
index_orders(n) ==
    { o \in [1..n -> 0..(n - 1)] : \A i, j \in 1..n : i # j => o[i] # o[j] }

\* np.argsort(x) with the default kind (quicksort, not stable): any order
\* that sorts x ascending; tied values come in either order.
argsort(a) ==
    { o \in index_orders(Len(a)) :
        \A i \in 1..(Len(a) - 1) : Py(a, o[i]) <= Py(a, o[i + 1]) }

\* a[order]
take(a, order) == [i \in 1..Len(order) |-> Py(a, order[i])]

\* Only x reordered, z returned as read.
sorted_x_only(xx, zz) == { <<take(xx, o), zz>> : o \in argsort(xx) }

\* lines 71-76: x[order], z[order] for order = np.argsort(x).
sorted_by_x(xx, zz) == { <<take(xx, o), take(zz, o)>> : o \in argsort(xx) }

\* line 55: open(path); the lines of the file are those of a drawn file.
OpenFile ==
    /\ lpc = "open"
    /\ DrawnFile(f')
    /\ lpc' = "loop"
    /\ UNCHANGED <<nread, xs, zs, ret>>
    /\ UNCHANGED <<profVars, batchVars, widthVars, statVars, guiVars, markerVars>>

\* lines 56-66: one iteration of the loop over the lines.
ReadLine ==
    /\ lpc = "loop"
    /\ nread < Len(f)
    /\ LET smp == line_sample(f[nread + 1])
       IN /\ xs' = IF smp = <<>> THEN xs ELSE Append(xs, smp[1][1])
          /\ zs' = IF smp = <<>> THEN zs ELSE Append(zs, smp[1][2])
    /\ nread' = nread + 1
    /\ UNCHANGED <<f, lpc, ret>>
    /\ UNCHANGED <<profVars, batchVars, widthVars, statVars, guiVars, markerVars>>

\* lines 68-69: raise ValueError("Not enough numeric data lines found.")
RaiseNotEnough ==
    /\ lpc = "loop"
    /\ nread = Len(f)
    /\ not_enough(xs)
    /\ lpc' = "raised"
    /\ UNCHANGED <<f, nread, xs, zs, ret>>
    /\ UNCHANGED <<profVars, batchVars, widthVars, statVars, guiVars, markerVars>>

\* lines 71-76: return x[order], z[order]
SortReturn ==
    /\ lpc = "loop"
    /\ nread = Len(f)
    /\ ~not_enough(xs)
    /\ \E r \in sorted_by_x(xs, zs) : ret' = r
    /\ lpc' = "returned"
    /\ UNCHANGED <<f, nread, xs, zs>>
    /\ UNCHANGED <<profVars, batchVars, widthVars, statVars, guiVars, markerVars>>

LoadNext ==
    \/ OpenFile
    \/ ReadLine
    \/ RaiseNotEnough
    \/ SortReturn

SpecLoad == LoadInit /\ [][LoadNext]_vars

ret_x == ret[1]

ret_z == ret[2]

\* ------------------------------------------------------------------ C9
\* A line is data: stripped, it is non-empty, starts with neither '#' nor
\* ';', does not begin with 'gwyddion' in any case, and holds at least two
\* numbers.
IsDataLine(line) ==
    LET s == strip(line)
    IN /\ s # <<>>
       /\ CharAt(s, 1) # "#" /\ CharAt(s, 1) # ";"
       /\ ~(Len(s) >= 8 /\ lower(SubSeq(s, 1, 8)) = Gwyddion)
       /\ Len(findall(s)) >= 2

RECURSIVE ExpectedSamples(_, _)
ExpectedSamples(lines, n) ==
    IF n = 0 THEN <<>>
    ELSE LET nums == findall(strip(lines[n]))
         IN IF IsDataLine(lines[n])
            THEN Append(ExpectedSamples(lines, n - 1), <<float(nums[1]), float(nums[2])>>)
            ELSE ExpectedSamples(lines, n - 1)

\* C9: a line contributes a sample if and only if it is data (IsDataLine);
\* the sample is (first number, second number); every other line is skipped
\* without raising: after any number of lines read, xs and zs hold exactly
\* the samples of the data lines read, in order, and no error was raised
\* before the end of the file.
C9_LineContributes ==
    lpc \in {"loop", "raised", "returned"} =>
        LET e == ExpectedSamples(f, nread)
        IN /\ Len(xs) = Len(e) /\ Len(zs) = Len(e)
           /\ \A i \in 1..Len(e) : xs[i] = e[i][1] /\ zs[i] = e[i][2]
           /\ lpc = "raised" => nread = Len(f)

\* A line with leading whitespace whose two numbers differ has been read and
\* has contributed its sample.
C9_Witness ==
    /\ lpc = "loop" /\ Len(f) = 1 /\ nread = 1
    /\ Head(f[1]) = " "
    /\ Len(xs) = 1 /\ xs[1] # zs[1]

\* ------------------------------------------------------------------ C7
RECURSIVE DataLineCount(_, _)
DataLineCount(lines, n) ==
    IF n = 0 THEN 0
    ELSE DataLineCount(lines, n - 1) + (IF IsDataLine(lines[n]) THEN 1 ELSE 0)

\* C7: load_profile_txt fails with the data-insufficiency error exactly when
\* fewer than 3 lines of the file yield a valid (x, z) pair; otherwise it
\* returns x and z of equal length >= 3.
C7_NotEnoughData ==
    /\ lpc = "raised" => DataLineCount(f, Len(f)) < 3
    /\ lpc = "returned" =>
          /\ DataLineCount(f, Len(f)) >= 3
          /\ Len(ret_x) = Len(ret_z)
          /\ Len(ret_x) = DataLineCount(f, Len(f))
    /\ (lpc = "loop" /\ nread = Len(f)) =>
          (ENABLED RaiseNotEnough <=> DataLineCount(f, Len(f)) < 3)

\* A file of exactly three data lines and one skipped line has been loaded.
C7_Witness ==
    /\ lpc = "returned" /\ Len(f) = 4 /\ Len(ret_x) = 3

\* ------------------------------------------------------------------ C8
\* The number of positions at which the pair (a, b) stands.
PairCount(xx, zz, a, b) ==
    Cardinality({ i \in 1..Len(xx) : xx[i] = a /\ zz[i] = b })

\* The z values standing with x = a, in order.
RECURSIVE ZsAt(_, _, _, _)
ZsAt(xx, zz, a, n) ==
    IF n = 0 THEN <<>>
    ELSE IF xx[n] = a THEN Append(ZsAt(xx, zz, a, n - 1), zz[n])
    ELSE ZsAt(xx, zz, a, n - 1)

SortedPairedPermutation ==
    /\ Len(ret_x) = Len(xs) /\ Len(ret_z) = Len(xs)
    /\ \A i \in 1..(Len(ret_x) - 1) : ret_x[i] <= ret_x[i + 1]
    /\ \A i \in 1..Len(xs) :
          PairCount(ret_x, ret_z, xs[i], zs[i]) = PairCount(xs, zs, xs[i], zs[i])

\* C8 as amended: the returned pairs are the parsed pairs sorted ascending
\* by x; pairs remain paired and the output is a permutation of the input
\* pairs (the relative order of pairs with equal x is not fixed).
C8_SortedByX == lpc = "returned" => SortedPairedPermutation

\* C8 as stated: the sort is stable, pairs with equal x keep their original
\* relative order.
C8_StableSort ==
    lpc = "returned" =>
        /\ SortedPairedPermutation
        /\ \A i \in 1..Len(xs) :
              ZsAt(ret_x, ret_z, xs[i], Len(ret_x)) = ZsAt(xs, zs, xs[i], Len(xs))

\* Samples read out of order, two of them with the same x, returned sorted.
C8_Witness ==
    /\ lpc = "returned"
    /\ ret_x # xs
    /\ \E i, j \in 1..Len(xs) : i < j /\ xs[i] = xs[j] /\ zs[i] # zs[j]

\* ============================================================ batch run
\* main of gwy-profile-analysis-v3.py (lines 440-545) and of
\* gwy-profile-analysis-v1.py (lines 324-376): the folder, the file list and
\* the loop over the files.
MaxFiles == 2

\* v3 line 495: scale = 1e9
NanoScale == 1000000000

\* The code point of a character of a file name.
ord(c) ==
    CASE c = "." -> 46 [] c = "0" -> 48 [] c = "1" -> 49 [] c = "2" -> 50
      [] c = "B" -> 66 [] c = "a" -> 97 [] c = "b" -> 98 [] c = "c" -> 99
      [] c = "h" -> 104 [] c = "s" -> 115 [] c = "t" -> 116 [] c = "v" -> 118
      [] c = "x" -> 120

\* str < str: by code point at the first difference, a proper prefix first.
RECURSIVE str_lt(_, _)
str_lt(a, b) ==
    IF b = <<>> THEN FALSE
    ELSE IF a = <<>> THEN TRUE
    ELSE IF Head(a) # Head(b) THEN ord(Head(a)) < ord(Head(b))
    ELSE str_lt(Tail(a), Tail(b))

\* One element put into an ascending list behind the elements not above it.
RECURSIVE insert_sorted(_, _)
insert_sorted(a, s) ==
    IF a = <<>> THEN <<s>>
    ELSE IF str_lt(s, Head(a)) THEN <<s>> \o a
    ELSE <<Head(a)>> \o insert_sorted(Tail(a), s)

RECURSIVE sorted_scan(_, _)
sorted_scan(a, acc) ==
    IF a = <<>> THEN acc ELSE sorted_scan(Tail(a), insert_sorted(acc, Head(a)))

\* sorted(list of str): ascending, equal elements in their given order.  The
\* paths sorted share the folder as prefix, so they sort as their names.
sorted(a) == sorted_scan(a, <<>>)

\* str.endswith(suffix)
endswith(s, suffix) ==
    Len(s) >= Len(suffix) /\ SubSeq(s, Len(s) - Len(suffix) + 1, Len(s)) = suffix

\* The pattern "*.txt" of glob: the name ends in ".txt"; a name with a leading
\* dot is not matched by "*".
fnmatch_txt(name) ==
    endswith(name, <<".", "t", "x", "t">>) /\ ~startswith(name, <<".">>)

\* The sequences that list the elements of S once each.
orderings(S) ==
    { o \in [1..Cardinality(S) -> S] :
        \A k, l \in 1..Cardinality(S) : k # l => o[k] # o[l] }

\* glob.glob(os.path.join(folder, "*.txt")): the matching entries of the
\* folder "in arbitrary order".
glob(d) == orderings({ name \in DOMAIN d : fnmatch_txt(name) })

\* load_profile_txt lines 54-66 over all lines: <<xs, zs>>.
RECURSIVE read_samples(_, _, _)
read_samples(lines, n, acc) ==
    IF n > Len(lines) THEN acc
    ELSE LET smp == line_sample(lines[n])
         IN read_samples(lines, n + 1,
                IF smp = <<>> THEN acc
                ELSE <<Append(acc[1], smp[1][1]), Append(acc[2], smp[1][2])>>)

\* load_profile_txt(path): the <<x, z>> it can return; none when it raises.
load_profile_txt(file) ==
    UNION { IF not_enough(s[1]) THEN {} ELSE sorted_by_x(s[1], s[2]) :
            s \in { read_samples(file, 1, <<<<>>, <<>>>>) } }

\* width_metric: the widths w it can return, as enclosures; none when
\* CubicSpline raises.
width_metric(xx, zz, ix) ==
    IF ~spline_ok(xx) THEN {}
    ELSE UNION { { abs_diff_enclosure(m[1], m[2], c) : m \in width_match_points(xx, r, ix) } :
                 <<r, c>> \in { <<q, Py(xx, q.ref_idx)>> : q \in { width_reference(xx, zz, ix) } } }

\* v3 lines 512-518: <<vl, vr, v_high, v_low, h_width, w>> of a loaded
\* profile, for every result of the width search; none when CubicSpline raises.
metrics_v3(xx, zz) ==
    UNION { { <<a[1], a[2], Max2(a[1], a[2]), Min2(a[1], a[2]), h[1], ww>> :
                ww \in width_metric(xx, zz, h[2]) } :
            <<h, a>> \in { <<g, vertical_amplitudes_left_right(zz, g[2])>> :
                             g \in { horizontal_amplitude_around_min(xx, zz) } } }

\* v1 lines 361-362: <<v, h_width>> of a loaded profile.
metrics_v1(xx, zz) ==
    { <<vertical_amplitude_ptp(zz), horizontal_amplitude_around_min(xx, zz)[1]>> }

\* v3 lines 510-518, v1 lines 359-362: the metrics of a file, for every result
\* of the sort; none when a call raises.
file_metrics(sc, file) ==
    UNION { IF sc = "v3" THEN metrics_v3(p[1], p[2]) ELSE metrics_v1(p[1], p[2]) :
            p \in load_profile_txt(file) }

\* np.nan, and a finite value val * times with the product left unevaluated.
NaN == [nan |-> TRUE, inf |-> 0, val |-> 0, times |-> 1]

scaled(val, sc) == [nan |-> FALSE, inf |-> 0, val |-> val, times |-> sc]

\* float("inf") and float("-inf")
Inf(sign) == [nan |-> FALSE, inf |-> sign, val |-> 0, times |-> 1]

\* np.isfinite
isfinite(a) == ~a.nan /\ a.inf = 0

\* v[np.isfinite(v)]
finite_only(a) == SelectSeq(a, isfinite)

RECURSIVE np_sum(_, _)
np_sum(a, k) == IF k > Len(a) THEN 0 ELSE a[k].val + np_sum(a, k + 1)

\* Sum of (N * v - sum)^2 = N^2 times the sum of the squared deviations from
\* the mean.
RECURSIVE sq_dev_sum(_, _, _)
sq_dev_sum(a, total, k) ==
    IF k > Len(a) THEN 0
    ELSE (Len(a) * a[k].val - total) * (Len(a) * a[k].val - total)
         + sq_dev_sum(a, total, k + 1)

\* The finite value (num / den) * times.
ratio(num, den, t) == [nan |-> FALSE, inf |-> 0, val |-> <<num, den>>, times |-> t]

\* The finite value sqrt(num / den) * times.
root(num, den, t) == [nan |-> FALSE, inf |-> 0, val |-> <<num, den>>, times |-> t, sqrt |-> TRUE]

\* np.mean(v) of a non-empty v whose values have one scale factor.
np_mean(a) == ratio(np_sum(a, 1), Len(a), a[1].times)

\* np.std(v, ddof): sqrt(sum |v - mean|^2 / (N - ddof)).
np_std(a, ddof) ==
    root(sq_dev_sum(a, np_sum(a, 1), 1), Len(a) * Len(a) * (Len(a) - ddof), a[1].times)

\* The population standard deviation, ddof = 0.
mean_sd_population(vals) ==
    LET a == finite_only(vals)
    IN IF Len(a) = 0 THEN <<NaN, NaN, 0>>
       ELSE <<np_mean(a), IF Len(a) > 1 THEN np_std(a, 0) ELSE scaled(0, 1), Len(a)>>

\* 0.0 in place of NaN when no finite value remains.
mean_sd_zero(vals) ==
    LET a == finite_only(vals)
    IN IF Len(a) = 0 THEN <<scaled(0, 1), scaled(0, 1), 0>>
       ELSE <<np_mean(a), IF Len(a) > 1 THEN np_std(a, 1) ELSE scaled(0, 1), Len(a)>>

\* v3 lines 188-198, v1 lines 107-117
mean_sd(vals) ==
    LET a == finite_only(vals)
    IN IF Len(a) = 0 THEN <<NaN, NaN, 0>>
       ELSE <<np_mean(a), IF Len(a) > 1 THEN np_std(a, 1) ELSE scaled(0, 1), Len(a)>>

\* A list of values known by enclosures <<lo, hi>>: the lower ends, the upper
\* ends, and the lists that take one end of each.
lows(a) == [k \in DOMAIN a |-> scaled(a[k].val[1], a[k].times)]

highs(a) == [k \in DOMAIN a |-> scaled(a[k].val[2], a[k].times)]

vertex_lists(a) ==
    { [k \in DOMAIN a |-> scaled(a[k].val[c[k]], a[k].times)] : c \in [DOMAIN a -> {1, 2}] }

\* The largest np.std over the enclosures: the squared deviations are convex
\* in the values, so it is that of a list of ends.
sd_upper(a) ==
    CHOOSE u \in { np_std(b, 1) : b \in vertex_lists(a) } :
        \A t \in { np_std(b, 1) : b \in vertex_lists(a) } : t.val[1] <= u.val[1]

\* v3 lines 188-198 on values known by enclosures: the mean between the means
\* of the lower and of the upper ends, the sd between 0 and sd_upper.
mean_sd_enclosed(vals) ==
    LET a == finite_only(vals)
    IN IF Len(a) = 0 THEN <<NaN, NaN, 0>>
       ELSE <<[nan |-> FALSE, inf |-> 0, val |-> <<np_mean(lows(a)), np_mean(highs(a))>>,
               times |-> a[1].times],
              IF Len(a) > 1
              THEN [nan |-> FALSE, inf |-> 0, val |-> <<scaled(0, 1), sd_upper(a)>>,
                    times |-> a[1].times]
              ELSE scaled(0, 1),
              Len(a)>>

\* v3 lines 418, 434: precision=':.10g'; v1 lines 306, 315: ".10g"
CsvPrecision == 10

\* f"{val:.<digits>g}": "nan", "inf", "-inf", or the digits of val, kept as
\* the value, the number of significant digits and the decimal point.
format_g(val, digits) ==
    IF val.nan THEN [text |-> "nan", of |-> val, digits |-> digits, point |-> ""]
    ELSE IF val.inf > 0 THEN [text |-> "inf", of |-> val, digits |-> digits, point |-> ""]
    ELSE IF val.inf < 0 THEN [text |-> "-inf", of |-> val, digits |-> digits, point |-> ""]
    ELSE [text |-> "g", of |-> val, digits |-> digits, point |-> "."]

\* v3 lines 207-216
format_number(val, sep, digits) ==
    IF ~isfinite(val) THEN [text |-> "NaN", of |-> val, digits |-> digits, point |-> ""]
    ELSE IF sep = "," THEN [format_g(val, digits) EXCEPT !.point = IF @ = "." THEN "," ELSE @]
    ELSE format_g(val, digits)

\* v3 lines 416-419: one row of the per-file section.
csv_file_row(row, sep) ==
    [k \in 1..Len(row) |->
        IF k = 1 THEN row[1] ELSE format_number(row[k], sep, CsvPrecision)]

\* v1 lines 305-308
csv_file_row_v1(row) ==
    [k \in 1..Len(row) |->
        IF k = 1 THEN row[1]
        ELSE IF isfinite(row[k]) THEN format_g(row[k], CsvPrecision)
        ELSE [text |-> "NaN", of |-> row[k], digits |-> CsvPrecision, point |-> ""]]

\* v3 lines 406-414, 424-431: the header of the per-file section, and the
\* labels of the summary rows.
CsvHeader == <<"Filename", "V_Left", "V_Right", "V_High", "V_Low", "H_Amplitude", "Width">>

SummaryLabels == <<"V_Left", "V_Right", "V_High", "V_Low", "H_Amplitude", "Width">>

\* v1 lines 302, 314, 318
CsvHeader_v1 == <<"Filename", "Vertical_Amplitude_ptp", "Horizontal_Amplitude_around_min">>

SummaryLabels_v1 == <<"Vertical_Amplitude_ptp", "Horizontal_Amplitude_around_min">>

\* v3 lines 432-437: one row of the summary section.
csv_summary_row(label, st, sep) ==
    <<label, format_number(st[1], sep, CsvPrecision),
      format_number(st[2], sep, CsvPrecision), st[3]>>

\* v1 lines 314-321
csv_summary_row_v1(label, st) ==
    <<label, format_g(st[1], CsvPrecision), format_g(st[2], CsvPrecision), st[3]>>

\* The rows of the per-file section written in reverse.
csv_rows_reversed(rows, st, u, sep) ==
    <<<<"=== PER-FILE RESULTS (values in ", u, ") ===">>, CsvHeader>>
    \o [k \in 1..Len(rows) |-> csv_file_row(rows[Len(rows) + 1 - k], sep)]
    \o <<<<>>, <<"=== SUMMARY STATISTICS ===">>, <<"Metric", "Mean", "SD", "N">>>>
    \o [k \in 1..Len(st) |-> csv_summary_row(SummaryLabels[k], st[k], sep)]

\* v3 lines 398-437: the rows save_results_to_csv writes.
csv_rows(rows, st, u, sep) ==
    <<<<"=== PER-FILE RESULTS (values in ", u, ") ===">>, CsvHeader>>
    \o [k \in 1..Len(rows) |-> csv_file_row(rows[k], sep)]
    \o <<<<>>, <<"=== SUMMARY STATISTICS ===">>, <<"Metric", "Mean", "SD", "N">>>>
    \o [k \in 1..Len(st) |-> csv_summary_row(SummaryLabels[k], st[k], sep)]

\* v1 lines 295-321
csv_rows_v1(rows, st) ==
    <<<<"=== PER-FILE RESULTS ===">>, CsvHeader_v1>>
    \o [k \in 1..Len(rows) |-> csv_file_row_v1(rows[k])]
    \o <<<<>>, <<"=== SUMMARY STATISTICS ===">>, <<"Metric", "Mean", "SD", "N">>>>
    \o [k \in 1..Len(st) |-> csv_summary_row_v1(SummaryLabels_v1[k], st[k])]

\* v1 lines 120-127, 160-162: plot_histogram saves a figure unless the list
\* has no finite value.
plot_histogram(vals, path) == IF Len(finite_only(vals)) = 0 THEN <<>> ELSE <<path>>

\* v3 lines 525-532: the values of a row, scaled.
row_v3(name, m, sc) ==
    <<name, scaled(m[1], sc), scaled(m[2], sc), scaled(m[3], sc),
      scaled(m[4], sc), scaled(m[5], sc), scaled(m[6], sc)>>

\* v1 line 367
row_v1(name, m) == <<name, scaled(m[1], 1), scaled(m[2], 1)>>

\* The failure swallowed without a row.
record_failure_dropped(rows, sc, name) == rows

\* The NaN row appended twice.
record_failure_twice(rows, sc, name) ==
    Append(Append(rows, IF sc = "v3" THEN <<name, NaN, NaN, NaN, NaN, NaN, NaN>>
                        ELSE <<name, NaN, NaN>>),
           IF sc = "v3" THEN <<name, NaN, NaN, NaN, NaN, NaN, NaN>> ELSE <<name, NaN, NaN>>)

\* v3 line 544, v1 line 375: per_file.append((name, np.nan, ...))
record_failure(rows, sc, name) ==
    Append(rows, IF sc = "v3" THEN <<name, NaN, NaN, NaN, NaN, NaN, NaN>>
                 ELSE <<name, NaN, NaN>>)

\* plot_profile lines 222-223, 391-395 (v1 lines 288-292): the path of the
\* saved plot, for names made of the characters safe_stem keeps.
out_plot(name) ==
    SubSeq(name, 1, Len(name) - 4)
        \o <<"_", "p", "r", "o", "f", "i", "l", "e", ".", "p", "n", "g">>

\* str.upper()
upper(s) ==
    [k \in 1..Len(s) |->
        IF \E U \in DOMAIN UpperToLower : UpperToLower[U] = s[k]
        THEN CHOOSE U \in DOMAIN UpperToLower : UpperToLower[U] = s[k]
        ELSE s[k]]

\* The comma as field delimiter in both presets.
delimiter_preset_comma(answer) ==
    IF upper(strip(answer)) = <<"B">> THEN <<",", ",">> ELSE <<".", ",">>

\* v3 lines 480-487: the presets <<decimal_sep, csv_delimiter>>.
delimiter_preset(answer) ==
    IF upper(strip(answer)) = <<"B">> THEN <<",", ";">> ELSE <<".", ",">>

\* v3 lines 490-498: <<scale, unit>>.
scale_preset(answer) ==
    IF lower(strip(answer)) \in {<<"n">>, <<"n", "o">>}
    THEN <<1, "m">> ELSE <<NanoScale, "nm">>

\* Names of entries of the folder: three that "*.txt" matches, two it does not.
TxtNames ==
    { <<"B", ".", "t", "x", "t">>,
      <<"a", "1", "0", ".", "t", "x", "t">>, <<"a", "2", ".", "t", "x", "t">> }

OtherNames == { <<"b", ".", "c", "s", "v">>, <<".", "h", ".", "t", "x", "t">> }

\* Files of a folder: two data lines only; three data lines behind a comment,
\* x not ascending; two samples at the same x; four samples.
BatchFiles ==
    { <<DataLine("1", "1"), DataLine("2", "1")>>,
      <<<<"#", "1", " ", "1", "\n">>, DataLine("2", "1"), DataLine("1", "1"),
        DataLine("0", "3")>>,
      <<DataLine("1", "1"), DataLine("1", "2"), DataLine("2", "1")>>,
      <<DataLine("0", "1"), DataLine("1", "0"), DataLine("2", "2"),
        DataLine("3", "1")>> }

\* The folders drawn: an empty folder, or the entries that do not match and up
\* to MaxFiles matching entries, each with one of the files above.
DrawnDir(d) ==
    \/ d = <<>>
    \/ \E M \in SUBSET TxtNames :
          /\ Cardinality(M) <= MaxFiles
          /\ \E c \in [M -> BatchFiles] :
                d = [name \in M \cup OtherNames |->
                        IF name \in M THEN c[name] ELSE <<>>]

DelimiterAnswers == { <<>>, <<"B">>, <<"b", " ">>, <<"B", "B">> }

ScaleAnswers == { <<>>, <<"y">>, <<"n">>, <<"N", "O">>, <<"n", "o", " ">>, <<"n", "o", "n">> }

BatchInit ==
    /\ script \in {"v1", "v3"}
    /\ is_dir = FALSE /\ dir = <<>> /\ files = <<>>
    /\ i_file = 0 /\ per_file = <<>>
    /\ vamps = <<>> /\ vlamps = <<>> /\ vramps = <<>> /\ vhamps = <<>>
    /\ vloamps = <<>> /\ hamps = <<>> /\ wamps = <<>> /\ plot_paths = <<>>
    /\ console = <<>>
    /\ decimal_sep = "" /\ csv_delimiter = "" /\ scale = 0 /\ unit = ""
    /\ delimiter_answer = <<>> /\ stats = <<>> /\ csv = NoCsv /\ hist_saved = <<>>
    /\ bpc = "start"
    /\ ProfileIdle
    /\ LoadIdle
    /\ WidthIdle
    /\ StatIdle
    /\ GuiIdle
    /\ MarkerIdle

\* v3 lines 458-462: the folder typed in; not a folder: message and return.
ChooseFolder ==
    /\ bpc = "start"
    /\ \/ /\ is_dir' = FALSE /\ dir' = <<>>
          /\ bpc' = "exit"
       \/ /\ is_dir' = TRUE /\ DrawnDir(dir')
          /\ bpc' = "list"
    /\ UNCHANGED <<script, files, i_file, per_file, listVars, console, presetVars>>
    /\ UNCHANGED <<delimiter_answer, reportVars>>
    /\ UNCHANGED <<profVars, loadVars, widthVars, statVars, guiVars, markerVars>>

\* v3 lines 464-470, 500-502: files = sorted(glob.glob(...)); no file:
\* message and return.
ListFiles ==
    /\ bpc = "list"
    /\ \E g \in glob(dir) : files' = sorted(g)
    /\ bpc' = IF files' = <<>> THEN "exit"
              ELSE IF script = "v3" THEN "delimiter" ELSE "loop"
    /\ UNCHANGED <<script, is_dir, dir, i_file, per_file, listVars, console, presetVars>>
    /\ UNCHANGED <<delimiter_answer, reportVars>>
    /\ UNCHANGED <<profVars, loadVars, widthVars, statVars, guiVars, markerVars>>

\* v3 lines 478-487
ChooseDelimiter ==
    /\ bpc = "delimiter"
    /\ \E answer \in DelimiterAnswers :
          /\ decimal_sep' = delimiter_preset(answer)[1]
          /\ csv_delimiter' = delimiter_preset(answer)[2]
          /\ delimiter_answer' = answer
    /\ bpc' = "scale"
    /\ UNCHANGED <<script, is_dir, dir, files, i_file, per_file, listVars, console,
                   scale, unit>>
    /\ UNCHANGED reportVars
    /\ UNCHANGED <<profVars, loadVars, widthVars, statVars, guiVars, markerVars>>

\* v3 lines 490-502
ChooseScale ==
    /\ bpc = "scale"
    /\ \E answer \in ScaleAnswers :
          /\ scale' = scale_preset(answer)[1]
          /\ unit' = scale_preset(answer)[2]
    /\ bpc' = "loop"
    /\ UNCHANGED <<script, is_dir, dir, files, i_file, per_file, listVars, console,
                   decimal_sep, csv_delimiter>>
    /\ UNCHANGED <<delimiter_answer, reportVars>>
    /\ UNCHANGED <<profVars, loadVars, widthVars, statVars, guiVars, markerVars>>

\* The file of the iteration: name = os.path.basename(path).
\* The first file at every iteration.
first_name == files[1]

current_name == files[i_file + 1]

\* v3 lines 506-541, v1 lines 355-371: an iteration whose calls all return.
FileSucceeds ==
    /\ bpc = "loop"
    /\ i_file < Len(files)
    /\ \E m \in file_metrics(script, dir[current_name]) :
          \/ /\ script = "v3"
             /\ per_file' = Append(per_file, row_v3(current_name, m, scale))
             /\ vlamps' = Append(vlamps, scaled(m[1], scale))
             /\ vramps' = Append(vramps, scaled(m[2], scale))
             /\ vhamps' = Append(vhamps, scaled(m[3], scale))
             /\ vloamps' = Append(vloamps, scaled(m[4], scale))
             /\ hamps' = Append(hamps, scaled(m[5], scale))
             /\ wamps' = Append(wamps, scaled(m[6], scale))
             /\ UNCHANGED vamps
          \/ /\ script = "v1"
             /\ per_file' = Append(per_file, row_v1(current_name, m))
             /\ vamps' = Append(vamps, scaled(m[1], 1))
             /\ hamps' = Append(hamps, scaled(m[2], 1))
             /\ UNCHANGED <<vlamps, vramps, vhamps, vloamps, wamps>>
    /\ plot_paths' = Append(plot_paths, out_plot(current_name))
    /\ console' = Append(console, <<current_name, "ok">>)
    /\ i_file' = i_file + 1
    /\ UNCHANGED <<script, is_dir, dir, files, presetVars, bpc>>
    /\ UNCHANGED <<delimiter_answer, reportVars>>
    /\ UNCHANGED <<profVars, loadVars, widthVars, statVars, guiVars, markerVars>>

\* v3 lines 506-545, v1 lines 355-376: an iteration in which a call raises:
\* load_profile_txt or CubicSpline on the file's data, or plot_profile
\* (savefig) on any file.  except Exception: the NaN row, and the next file.
FileFails ==
    /\ bpc = "loop"
    /\ i_file < Len(files)
    /\ \E plot_raises \in BOOLEAN :
          \/ plot_raises
          \/ file_metrics(script, dir[current_name]) = {}
    /\ per_file' = record_failure(per_file, script, current_name)
    /\ console' = Append(console, <<current_name, "error">>)
    /\ i_file' = i_file + 1
    /\ UNCHANGED <<script, is_dir, dir, files, listVars, presetVars, bpc>>
    /\ UNCHANGED <<delimiter_answer, reportVars>>
    /\ UNCHANGED <<profVars, loadVars, widthVars, statVars, guiVars, markerVars>>

\* v3 line 506: the files are exhausted; the report follows.
LoopEnd ==
    /\ bpc = "loop"
    /\ i_file = Len(files)
    /\ bpc' = "report"
    /\ UNCHANGED <<script, is_dir, dir, files, i_file, per_file, listVars, console,
                   presetVars>>
    /\ UNCHANGED <<delimiter_answer, reportVars>>
    /\ UNCHANGED <<profVars, loadVars, widthVars, statVars, guiVars, markerVars>>

\* v3 lines 546-581, v1 lines 377-405: the per-file table and the summary
\* statistics, printed.
Summarize ==
    /\ bpc = "report"
    /\ stats' = IF script = "v3"
                THEN <<mean_sd(vlamps), mean_sd(vramps), mean_sd(vhamps),
                       mean_sd(vloamps), mean_sd(hamps), mean_sd_enclosed(wamps)>>
                ELSE <<mean_sd(vamps), mean_sd(hamps)>>
    /\ bpc' = "save"
    /\ UNCHANGED <<script, is_dir, dir, files, i_file, per_file, listVars, console,
                   presetVars, delimiter_answer, csv, hist_saved>>
    /\ UNCHANGED <<profVars, loadVars, widthVars, statVars, guiVars, markerVars>>

\* v3 lines 583-599, v1 lines 407-433: the CSV written (v1: after the two
\* histograms), and main returns.
SaveCsv ==
    /\ bpc = "save"
    /\ \/ /\ script = "v3"
          /\ csv' = [delimiter |-> csv_delimiter,
                     rows |-> csv_rows(per_file, stats, unit, decimal_sep)]
          /\ UNCHANGED hist_saved
       \/ /\ script = "v1"
          /\ hist_saved' = plot_histogram(vamps, "vertical_amplitude_distribution.png")
                           \o plot_histogram(hamps, "horizontal_amplitude_distribution.png")
          /\ csv' = [delimiter |-> ",", rows |-> csv_rows_v1(per_file, stats)]
    /\ bpc' = "done"
    /\ UNCHANGED <<script, is_dir, dir, files, i_file, per_file, listVars, console,
                   presetVars, delimiter_answer, stats>>
    /\ UNCHANGED <<profVars, loadVars, widthVars, statVars, guiVars, markerVars>>

BatchNext ==
    \/ ChooseFolder
    \/ ListFiles
    \/ ChooseDelimiter
    \/ ChooseScale
    \/ FileSucceeds
    \/ FileFails
    \/ LoopEnd
    \/ Summarize
    \/ SaveCsv

SpecBatch == BatchInit /\ [][BatchNext]_vars

\* ------------------------------------------------------------------ C6
\* The input files of the run: the entries of the folder named *.txt.
InputFiles ==
    { name \in DOMAIN dir :
        /\ Len(name) >= 4
        /\ SubSeq(name, Len(name) - 3, Len(name)) = <<".", "t", "x", "t">>
        /\ name[1] # "." }

AllNaN(row) == \A k \in 2..Len(row) : row[k].nan

NoNaN(row) == \A k \in 2..Len(row) : ~row[k].nan

\* C6: the batch loop attempts every input file exactly once in sorted-by-name
\* order and appends exactly one row per file to per_file in that order; a
\* file that fails (one with only 2 valid numeric lines among them) yields a
\* row whose metrics are all NaN, and the loop goes on with the next file: it
\* ends only when every file has its row, and main returns early only before
\* the loop.
C6_BatchLoop ==
    /\ bpc \in {"loop", "report"} =>
          /\ \A k, l \in 1..Len(files) : k < l => str_lt(files[k], files[l])
          /\ { files[k] : k \in 1..Len(files) } = InputFiles
          /\ i_file <= Len(files)
          /\ Len(per_file) = i_file
          /\ Len(console) = i_file
          /\ \A k \in 1..i_file :
                /\ per_file[k][1] = files[k]
                /\ console[k][1] = files[k]
                /\ console[k][2] = "error" <=> AllNaN(per_file[k])
                /\ console[k][2] = "ok" <=> NoNaN(per_file[k])
                /\ DataLineCount(dir[files[k]], Len(dir[files[k]])) < 3
                      => AllNaN(per_file[k])
          /\ i_file < Len(files) => bpc = "loop"
    /\ bpc = "exit" => per_file = <<>> /\ console = <<>> /\ (~is_dir \/ InputFiles = {})

\* A run of the v3 script over two files: B.txt, sorted first, has 2 data
\* lines and got the NaN row; the next file was processed after it.
C6_Witness ==
    /\ bpc = "report" /\ script = "v3"
    /\ Len(files) = 2
    /\ files[1] = <<"B", ".", "t", "x", "t">>
    /\ DataLineCount(dir[files[1]], Len(dir[files[1]])) = 2
    /\ AllNaN(per_file[1])
    /\ console[2] = <<files[2], "ok">>
    /\ NoNaN(per_file[2])

\* ========================================================= width_metric
\* width_metric (v3 lines 121-185) step by step, with the spline computed.
\* v3 line 150: n_eval = max(1000, 10 * len(x))
MinEval == 1000

MaxStep == 2

n_eval(xx) == Max2(MinEval, 10 * Len(xx))

\* CubicSpline(x, z) for equally spaced x, boundary condition 'not-a-knot':
\* for 3 samples the parabola through them, for 4 samples the cubic through
\* them.  6 * S as a polynomial in t = (x - x[0]) / (x[1] - x[0]), from the
\* forward differences of z.
CubicSpline(zz) ==
    LET d1 == zz[2] - zz[1]
        d2 == zz[3] - 2 * zz[2] + zz[1]
        d3 == IF Len(zz) = 4 THEN zz[4] - 3 * zz[3] + 3 * zz[2] - zz[1] ELSE 0
    IN [a3 |-> d3, a2 |-> 3 * d2 - 3 * d3, a1 |-> 6 * d1 - 3 * d2 + 2 * d3,
        a0 |-> 6 * zz[1]]

\* The spline of constant data: every coefficient but the constant is 0.0.
is_constant(c) == c.a3 = 0 /\ c.a2 = 0 /\ c.a1 = 0

\* The sign of cs(t) - ref_z at t = p / q, exactly: the sign of
\* ((a3 p + a2 q) p + a1 q^2) p + (a0 - 6 ref_z) q^3, computed as the sign of
\* its quotient by q so that every intermediate value stays below 2^31.
poly_sign(c, ref_z, p, q) ==
    LET c0 == c.a0 - 6 * ref_z
        u1 == c.a3 * p + c.a2 * q
        u2 == u1 * p + c.a1 * q * q
        m == u2 \div q
        r == u2 % q
        whole == m * p + c0 * q * q + ((r * p) \div q)
        frac == (r * p) % q
    IN IF whole > 0 \/ (whole = 0 /\ frac > 0) THEN 1
       ELSE IF whole = 0 THEN 0 ELSE -1

\* v3 lines 144-147 as sample indices: x_lo = x[lo_idx], x_hi = x[hi_idx].
lo_idx(r, ix) == IF r.search_side = "right" THEN ix[2] ELSE 0

\* x_hi = x[-1] on both sides.
hi_idx_whole(r, ix, n) == n - 1

hi_idx(r, ix, n) == IF r.search_side = "right" THEN n - 1 ELSE ix[2]

\* np.linspace(x_lo, x_hi, n_eval)[j] as the sample index t = p / q with
\* q = n_eval - 1: the numerator p.
grid_p(r, ix, n, q, j) == q * lo_idx(r, ix) + j * (hi_idx(r, ix, n) - lo_idx(r, ix))

\* x_dense[j] in units of 1 / (n_eval - 1).
x_dense(r, q, j) == q * r.x_lo + j * (r.x_hi - r.x_lo)

\* The grid points where cs(x_dense) - ref_z is computed without rounding: a
\* grid point that is a breakpoint x[k], k < len(x) - 1, given exactly by
\* linspace (its first and last point), where the spline returns z[k].
exact_p(p, q, n) == p % q = 0 /\ p \div q < n - 1

\* The grid points whose value is 0 but for rounding: its sign is not fixed.
rounded_ps(c, r, ix, n, q) ==
    IF is_constant(c) THEN {}
    ELSE { p \in { grid_p(r, ix, n, q, j) : j \in 0..q } :
             /\ poly_sign(c, r.ref_z, p, q) = 0
             /\ ~( exact_p(p, q, n)
                   /\ p \in { grid_p(r, ix, n, q, 0), grid_p(r, ix, n, q, q) } ) }

\* np.sign
np_sign(a) == IF a > 0 THEN 1 ELSE IF a < 0 THEN -1 ELSE 0

\* The elements of a set of integers in ascending order.
RECURSIVE ascending(_)
ascending(S) ==
    IF S = {} THEN <<>>
    ELSE LET lowest == CHOOSE a \in S : \A b \in S : a <= b
         IN <<lowest>> \o ascending(S \ {lowest})

\* v3 line 155: np.where(np.diff(np.sign(z_dense)))[0]
where_diff_sign(zd) ==
    ascending({ j \in 0..(Len(zd) - 2) : np_sign(Py(zd, j + 1)) - np_sign(Py(zd, j)) # 0 })

\* The sample counts for which the spline is computed.
SplineLens == {3, 4}

\* A profile the spline overshoots: it passes z[3] between x[2] and x[3].
OvershootZ == <<5, 0, 4, 5>>

\* Profiles given to width_metric: equally spaced x with every z over ZVals,
\* the overshoot profile, and an x that repeats a value.
DrawnWidthProfile(xx, zz) ==
    \/ \E n \in SplineLens, h \in 1..MaxStep :
          /\ xx = [k \in 1..n |-> h * (k - 1)]
          /\ zz \in [1..n -> ZVals] \cup {OvershootZ}
          /\ Len(zz) = n
    \/ xx = <<0, 1, 1>> /\ zz \in {<<1, 0, 1>>}

\* idxs as main passes it (v3 line 512), or any i_left <= i_min <= i_right of
\* a caller of its own.
DrawnIdxs(who, xx, zz, ix) ==
    \/ /\ who = "main"
       /\ ix = horizontal_amplitude_around_min(xx, zz)[2]
    \/ /\ who = "direct"
       /\ Len(xx) = 3 /\ xx[2] = 1
       /\ ix \in { t \in (0..2) \X (0..2) \X (0..2) : t[1] <= t[2] /\ t[2] <= t[3] }

WidthInit ==
    /\ caller \in {"main", "direct"}
    /\ DrawnWidthProfile(x, z)
    /\ DrawnIdxs(caller, x, z, idxs)
    /\ pc = "idle"
    /\ v = 0 /\ h_width = 0 /\ vl = 0 /\ vr = 0 /\ wref = NoWidth
    /\ match_x = <<0, 0>> /\ w = <<0, 0>> /\ v_high = 0 /\ v_low = 0
    /\ cs = NoSpline /\ z_dense = <<>> /\ sign_changes = <<>>
    /\ best = 0 /\ wm_match = <<0, 0>> /\ wm_w = <<0, 0>> /\ wm_src = "none"
    /\ wpc = "start"
    /\ LoadIdle
    /\ BatchIdle
    /\ StatIdle
    /\ GuiIdle
    /\ MarkerIdle

\* v3 lines 123-147: the reference side, the spline, the search interval.
BuildSpline ==
    /\ wpc = "start"
    /\ spline_ok(x)
    /\ wref' = width_reference(x, z, idxs)
    /\ cs' = CubicSpline(z)
    /\ wpc' = "scan"
    /\ UNCHANGED <<x, z, pc, v, h_width, idxs, vl, vr, match_x, w, v_high, v_low>>
    /\ UNCHANGED <<caller, z_dense, sign_changes, best, wm_match, wm_w, wm_src>>
    /\ UNCHANGED <<loadVars, batchVars, statVars, guiVars, markerVars>>

\* v3 line 139: CubicSpline raises ValueError, x is not strictly increasing.
SplineRaises ==
    /\ wpc = "start"
    /\ ~spline_ok(x)
    /\ wref' = width_reference(x, z, idxs)
    /\ wpc' = "raised"
    /\ UNCHANGED <<x, z, pc, v, h_width, idxs, vl, vr, match_x, w, v_high, v_low>>
    /\ UNCHANGED <<caller, cs, z_dense, sign_changes, best, wm_match, wm_w, wm_src>>
    /\ UNCHANGED <<loadVars, batchVars, statVars, guiVars, markerVars>>

\* v3 lines 150-155: the dense scan.  z_dense holds the signs of
\* cs(x_dense) - ref_z; a value that is 0 but for rounding has any sign, the
\* same at equal grid points.
DenseScan ==
    /\ wpc = "scan"
    /\ LET n == Len(x)
           q == n_eval(x) - 1
       IN \E rnd \in [rounded_ps(cs, wref, idxs, n, q) -> {-1, 0, 1}] :
             z_dense' = [k \in 1..(q + 1) |->
                            LET p == grid_p(wref, idxs, n, q, k - 1)
                            IN IF p \in DOMAIN rnd THEN rnd[p]
                               ELSE poly_sign(cs, wref.ref_z, p, q)]
    /\ sign_changes' = where_diff_sign(z_dense')
    /\ wpc' = "match"
    /\ UNCHANGED profVars
    /\ UNCHANGED <<caller, cs, best, wm_match, wm_w, wm_src>>
    /\ UNCHANGED <<loadVars, batchVars, statVars, guiVars, markerVars>>

\* The first bracket for every search side.
pick_first(sc, side) == sc[1]

\* v3 line 159: best = sign_changes[0] if search_side == 'right' else
\* sign_changes[-1]
pick_best(sc, side) == IF side = "right" THEN sc[1] ELSE sc[Len(sc)]

\* The bracket after best taken.
interpolate_next(r, q, zd, b) == <<x_dense(r, q, b + 1), x_dense(r, q, b + 2)>>

\* v3 lines 161-166: the point between x_a = x_dense[best] and
\* x_b = x_dense[best + 1] where the line through (x_a, z_a), (x_b, z_b) is 0:
\* x_a for z_a = 0, x_b for z_b = 0, else a point between them (z_a and z_b
\* differ in sign, so z_b - z_a is not 0).
interpolate(r, q, zd, b) ==
    IF Py(zd, b) = 0 THEN <<x_dense(r, q, b), x_dense(r, q, b)>>
    ELSE IF Py(zd, b + 1) = 0 THEN <<x_dense(r, q, b + 1), x_dense(r, q, b + 1)>>
    ELSE <<x_dense(r, q, b), x_dense(r, q, b + 1)>>

\* v3 lines 157-166, 182-185: a sign change is found.
UseBracket ==
    /\ wpc = "match"
    /\ Len(sign_changes) > 0
    /\ LET q == n_eval(x) - 1
       IN /\ best' = pick_best(sign_changes, wref.search_side)
          /\ wm_match' = interpolate(wref, q, z_dense, best')
          /\ wm_w' = abs_diff_enclosure(wm_match'[1], wm_match'[2], q * Py(x, wref.ref_idx))
    /\ wm_src' = "bracket"
    /\ wpc' = "returned"
    /\ UNCHANGED profVars
    /\ UNCHANGED <<caller, cs, z_dense, sign_changes>>
    /\ UNCHANGED <<loadVars, batchVars, statVars, guiVars, markerVars>>

\* The nearest sample taken from the whole profile.
fallback_idx_whole(zz, r, ix) ==
    argmin([k \in 1..Len(zz) |-> Abs(zz[k] - r.ref_z)])

\* Of tied samples the one nearest to the global minimum.
fallback_idx_near_min(zz, r, ix) ==
    LET search_slice == IF r.search_side = "right" THEN Slice(zz, ix[2], Len(zz))
                        ELSE Slice(zz, 0, ix[2] + 1)
        search_offset == IF r.search_side = "right" THEN ix[2] ELSE 0
        diffs == [k \in 1..Len(search_slice) |-> Abs(search_slice[k] - r.ref_z)]
    IN search_offset + (IF r.search_side = "right" THEN argmin(diffs) ELSE argmin_last(diffs))

\* v3 lines 170-178: the sample of the search side nearest to ref_z.
fallback_idx(zz, r, ix) ==
    LET search_slice == IF r.search_side = "right" THEN Slice(zz, ix[2], Len(zz))
                        ELSE Slice(zz, 0, ix[2] + 1)
        search_offset == IF r.search_side = "right" THEN ix[2] ELSE 0
        diffs == [k \in 1..Len(search_slice) |-> Abs(search_slice[k] - r.ref_z)]
    IN search_offset + argmin(diffs)

\* v3 lines 169-185: no sign change, match_x is None.
UseFallback ==
    /\ wpc = "match"
    /\ Len(sign_changes) = 0
    /\ LET q == n_eval(x) - 1
           m == q * Py(x, fallback_idx(z, wref, idxs))
       IN /\ wm_match' = <<m, m>>
          /\ wm_w' = abs_diff_enclosure(m, m, q * Py(x, wref.ref_idx))
    /\ wm_src' = "fallback"
    /\ wpc' = "returned"
    /\ UNCHANGED profVars
    /\ UNCHANGED <<caller, cs, z_dense, sign_changes, best>>
    /\ UNCHANGED <<loadVars, batchVars, statVars, guiVars, markerVars>>

WidthNext ==
    \/ BuildSpline
    \/ SplineRaises
    \/ DenseScan
    \/ UseBracket
    \/ UseFallback

SpecWidth == WidthInit /\ [][WidthNext]_vars

WidthReturned == wpc = "returned"

\* The grid indices j where the signs of z_dense[j] and z_dense[j + 1] differ.
Crossings ==
    { j \in 0..(Len(z_dense) - 2) :
        (Py(z_dense, j) > 0) # (Py(z_dense, j + 1) > 0)
            \/ (Py(z_dense, j) < 0) # (Py(z_dense, j + 1) < 0) }

\* The distance, in grid steps along x, from the global minimum to bracket j.
StepsFromMin(j) ==
    IF wref.search_side = "right" THEN j ELSE (Len(z_dense) - 1) - (j + 1)

\* ----------------------------------------------------------------- C11
\* C11: when the dense scan holds one or more sign-change brackets,
\* width_metric uses the bracket nearest the global minimum: the first
\* bracket on a right search, the last on a left search.
C11_NearestBracket ==
    (WidthReturned /\ Crossings # {}) =>
        /\ wm_src = "bracket"
        /\ best \in Crossings
        /\ \A j \in Crossings : StepsFromMin(best) <= StepsFromMin(j)
        /\ wref.search_side = "right" => \A j \in Crossings : best <= j
        /\ wref.search_side = "left" => \A j \in Crossings : best >= j
        /\ wm_match[1] >= x_dense(wref, Len(z_dense) - 1, best)
        /\ wm_match[2] <= x_dense(wref, Len(z_dense) - 1, best + 1)

\* A left search over several brackets, called by main: the last one is used.
C11_Witness ==
    /\ WidthReturned /\ caller = "main"
    /\ wref.search_side = "left"
    /\ Cardinality(Crossings) >= 2
    /\ best > 0
    /\ \A j \in Crossings : best >= j

\* ----------------------------------------------------------------- C12
\* The samples of the search side: z[i_min:] or z[:i_min+1], as indices.
SearchSide ==
    IF wref.search_side = "right" THEN idxs[2]..(Len(z) - 1) ELSE 0..idxs[2]

\* C12: when the dense scan holds no sign change, width_metric raises no
\* error and the match point is the x of the sample of the search-side
\* sub-sequence whose z is nearest to ref_z.
C12_DiscreteFallback ==
    /\ wpc = "raised" => ~spline_ok(x)
    /\ (wpc = "match" /\ Crossings = {}) => sign_changes = <<>>
    /\ (WidthReturned /\ Crossings = {}) =>
          /\ wm_src = "fallback"
          /\ \E k \in SearchSide :
                /\ wm_match = <<(Len(z_dense) - 1) * Py(x, k), (Len(z_dense) - 1) * Py(x, k)>>
                /\ \A j \in SearchSide :
                      Abs(Py(z, k) - wref.ref_z) <= Abs(Py(z, j) - wref.ref_z)

\* A call by main without a sign change, where a sample off the search side
\* is as near to ref_z as the one taken, and the width is not 0.
C12_Witness ==
    /\ WidthReturned /\ caller = "main"
    /\ Crossings = {}
    /\ wm_src = "fallback"
    /\ wm_w[1] > 0
    /\ \E j \in 0..(Len(z) - 1) :
          /\ j \notin SearchSide
          /\ \A k \in SearchSide :
                Abs(Py(z, j) - wref.ref_z) <= Abs(Py(z, k) - wref.ref_z)

\* ----------------------------------------------------------------- C13
\* n_eval - 1: the unit of wm_match and wm_w is 1 / GridSteps.
GridSteps == Len(z_dense) - 1

\* C13: the match point lies in the closed search interval, x[i_min] to
\* x[last] on a right search and x[0] to x[i_min] on a left search, from a
\* bracket or from the fallback; the width is |match_x - x[ref_idx]| and so at
\* least |x[i_min] - x[ref_idx]|.
C13_MatchInInterval ==
    WidthReturned =>
        /\ wref.search_side = "right" =>
              /\ GridSteps * Py(x, idxs[2]) <= wm_match[1]
              /\ wm_match[2] <= GridSteps * Py(x, Len(x) - 1)
        /\ wref.search_side = "left" =>
              /\ GridSteps * Py(x, 0) <= wm_match[1]
              /\ wm_match[2] <= GridSteps * Py(x, idxs[2])
        /\ wm_match[1] <= wm_match[2]
        /\ \A m \in {wm_match[1], wm_match[2]} :
              /\ wm_w[1] <= Abs(m - GridSteps * Py(x, wref.ref_idx))
              /\ Abs(m - GridSteps * Py(x, wref.ref_idx)) <= wm_w[2]
        /\ wm_match[1] = wm_match[2] => wm_w[1] = wm_w[2]
        /\ wm_w[1] >= GridSteps * Abs(Py(x, idxs[2]) - Py(x, wref.ref_idx))

\* A call by main that takes the last bracket of the grid, which ends at x_hi.
C13_Witness ==
    /\ WidthReturned /\ caller = "main"
    /\ wm_src = "bracket"
    /\ best = GridSteps - 1
    /\ wm_match[2] = GridSteps * wref.x_hi
    /\ wm_w[1] > GridSteps * Abs(Py(x, idxs[2]) - Py(x, wref.ref_idx))

\* ----------------------------------------------------------------- C14
\* The left and the right maximum of a profile main passes have equal z.
EqualMaxima ==
    /\ caller = "main"
    /\ Py(z, idxs[1]) = Py(z, idxs[3])

\* |x[i_right] - x[i_left]|, in the unit of wm_w.
HorizontalSteps == GridSteps * Abs(Py(x, idxs[3]) - Py(x, idxs[1]))

\* C14, as amended: with equal maxima the left maximum is the reference and
\* the search goes right; a match point from the fallback is x[i_right] and
\* the width is then |x[i_right] - x[i_left]|; a match point from a bracket
\* is in the first sign-change bracket right of the minimum.
C14_EqualMaximaWidth ==
    (WidthReturned /\ EqualMaxima) =>
        /\ wref.ref_idx = idxs[1]
        /\ wref.search_side = "right"
        /\ wm_src = "fallback" =>
              /\ wm_match = <<GridSteps * Py(x, idxs[3]), GridSteps * Py(x, idxs[3])>>
              /\ wm_w = <<HorizontalSteps, HorizontalSteps>>
        /\ wm_src = "bracket" =>
              /\ \A j \in Crossings : best <= j
              /\ wm_w[1] >= GridSteps * (Py(x, idxs[2]) - Py(x, idxs[1]))

\* C14 as stated: with equal maxima the left maximum is the reference and the
\* width is |x[i_right] - x[i_left]|, to within one step of the grid.
C14_WidthIsHorizontal ==
    (WidthReturned /\ EqualMaxima) =>
        /\ wref.ref_idx = idxs[1]
        /\ wm_w[1] <= HorizontalSteps
        /\ HorizontalSteps <= wm_w[2]

\* Equal maxima two samples apart, the match point from the fallback.
C14_Witness ==
    /\ WidthReturned /\ EqualMaxima
    /\ idxs[1] < idxs[2] /\ idxs[2] < idxs[3]
    /\ wm_src = "fallback"
    /\ wm_w[1] = HorizontalSteps

MaxVals == 3

StatNums == {-1, 2, 4, 5}

StatValues == {NaN, Inf(1), Inf(-1)} \cup { scaled(k, 1) : k \in StatNums }

RECURSIVE lists_of(_, _)
lists_of(S, n) ==
    IF n = 0 THEN { <<>> }
    ELSE { Append(a, e) : a \in lists_of(S, n - 1), e \in S }

DrawnValues(a) == \E n \in 0..MaxVals : a \in lists_of(StatValues, n)

StatInit ==
    /\ DrawnValues(values)
    /\ mean_sd_ret = <<>>
    /\ mpc = "call"
    /\ ProfileIdle
    /\ LoadIdle
    /\ BatchIdle
    /\ WidthIdle
    /\ GuiIdle
    /\ MarkerIdle

\* One call of mean_sd.
MeanSd ==
    /\ mpc = "call"
    /\ mean_sd_ret' = mean_sd(values)
    /\ mpc' = "returned"
    /\ UNCHANGED values
    /\ UNCHANGED <<profVars, loadVars, batchVars, widthVars, guiVars, markerVars>>

StatNext == MeanSd

SpecStats == StatInit /\ [][StatNext]_vars

\* ----------------------------------------------------------------- C16
\* The finite entries of values, as integers.
RECURSIVE FiniteNums(_, _)
FiniteNums(a, k) ==
    IF k > Len(a) THEN <<>>
    ELSE IF a[k].nan \/ a[k].inf # 0 THEN FiniteNums(a, k + 1)
         ELSE <<a[k].val>> \o FiniteNums(a, k + 1)

RECURSIVE Total(_)
Total(a) == IF a = <<>> THEN 0 ELSE Head(a) + Total(Tail(a))

RECURSIVE SquaresTotal(_)
SquaresTotal(a) == IF a = <<>> THEN 0 ELSE Head(a) * Head(a) + SquaresTotal(Tail(a))

\* C16: mean_sd ignores non-finite entries; (NaN, NaN, 0) with no finite
\* value, (v, 0.0, 1) with one, else the arithmetic mean, the sample standard
\* deviation (N - 1 denominator: sd^2 * N * (N - 1) = N * sum v^2 - (sum v)^2)
\* and N; [] -> (NaN, NaN, 0), [5] -> (5, 0, 1), [2, 4] -> (3, sqrt(2), 2).
C16_MeanSd ==
    mpc = "returned" =>
        LET nums == FiniteNums(values, 1)
            N == Len(nums)
            mean == mean_sd_ret[1]
            sd == mean_sd_ret[2]
        IN /\ mean_sd_ret[3] = N
           /\ N = 0 => mean.nan /\ sd.nan
           /\ N >= 1 =>
                 /\ isfinite(mean)
                 /\ mean.val[1] * N = Total(nums) * mean.val[2]
           /\ N = 1 => sd = scaled(0, 1) /\ mean.val[1] = nums[1] * mean.val[2]
           /\ N > 1 =>
                 /\ isfinite(sd) /\ sd.sqrt
                 /\ sd.val[1] * N * (N - 1)
                       = (N * SquaresTotal(nums) - Total(nums) * Total(nums)) * sd.val[2]
           /\ values = <<>> => mean_sd_ret = <<NaN, NaN, 0>>
           /\ values = <<scaled(5, 1)>> =>
                 mean_sd_ret = <<ratio(5, 1, 1), scaled(0, 1), 1>>
           /\ values = <<scaled(2, 1), scaled(4, 1)>> =>
                 /\ mean.val[1] = 3 * mean.val[2]
                 /\ sd.val[1] = 2 * sd.val[2]
                 /\ mean_sd_ret[3] = 2

\* Two finite values among non-finite ones: mean 3 and sd sqrt(2) of 2 values.
C16_Witness ==
    /\ mpc = "returned"
    /\ values = <<scaled(2, 1), Inf(1), scaled(4, 1)>>
    /\ mean_sd_ret[3] = 2
    /\ mean_sd_ret[2].val[1] = 2 * mean_sd_ret[2].val[2]

\* ======================================================================
\* main after the loop: summary statistics and the results CSV.
\* ======================================================================

\* The loop, the report and the save are taken when they can be: main runs on.
SpecBatchFair ==
    SpecBatch /\ WF_vars(LoopEnd) /\ WF_vars(Summarize) /\ WF_vars(SaveCsv)

\* ----------------------------------------------------------------- C17
\* The loop has gone through all the files, at least one, and each failed.
AllFailed ==
    /\ bpc \in {"loop", "report", "save", "done"}
    /\ i_file = Len(files)
    /\ \A k \in 1..Len(console) : console[k][2] = "error"

\* The row of the CSV's summary section for the k-th metric.
SummaryRow(k) == csv.rows[Len(per_file) + 5 + k]

\* The row of the CSV's per-file section for the k-th file.
FileRow(k) == csv.rows[2 + k]

\* C17: when every file fails the run completes: the loop ends, every
\* summary statistic is (NaN, NaN, 0), and the CSV is written with NaN for
\* every metric and every mean and SD; no step of main raises.
C17_AllFilesFail ==
    /\ [](AllFailed =>
            /\ bpc \in {"save", "done"} => \A k \in 1..Len(stats) : stats[k] = <<NaN, NaN, 0>>
            /\ bpc \in {"save", "done"} => Len(stats) = IF script = "v3" THEN 6 ELSE 2
            /\ bpc = "done" =>
                  /\ Len(csv.rows) = Len(files) + 5 + Len(stats)
                  /\ \A k \in 1..Len(files) :
                        /\ FileRow(k)[1] = files[k]
                        /\ \A j \in 2..Len(FileRow(k)) : FileRow(k)[j].text = "NaN"
                  /\ script = "v3" =>
                        \A k \in 1..6 :
                            /\ SummaryRow(k)[2].text = "NaN"
                            /\ SummaryRow(k)[3].text = "NaN"
                            /\ SummaryRow(k)[4] = 0)
    /\ (AllFailed /\ bpc = "loop") ~> (AllFailed /\ bpc = "done")

\* v3 has written the CSV of a run in which both files failed.
C17_Witness ==
    /\ AllFailed /\ bpc = "done" /\ script = "v3"
    /\ Len(files) >= 2
    /\ Len(csv.rows) = Len(files) + 11

\* ----------------------------------------------------------------- C18
\* The rows a file can have, from the script, the scale and the file's
\* content alone: the NaN row, or its name and its scaled metrics.
RowsOf(name) ==
    { record_failure(<<>>, script, name)[1] }
    \cup { IF script = "v3" THEN row_v3(name, m, scale) ELSE row_v1(name, m) :
           m \in file_metrics(script, dir[name]) }

\* C18: the list of files is the sorted list of names whatever the order in
\* which the folder lists them; each iteration adds the row of the next file
\* in that order, a row that is a function of that file's content (and of the
\* scale chosen), whatever the other files are and do; no step changes a
\* row already recorded.
C18_RowDependsOnFile ==
    [][/\ bpc = "list" => \A g \in glob(dir') : files' = sorted(g)
       /\ bpc # "list" => files' = files
       /\ bpc # "start" => dir' = dir
       /\ (bpc = "loop" /\ i_file' # i_file) =>
             /\ i_file' = i_file + 1
             /\ Len(per_file') = i_file'
             /\ SubSeq(per_file', 1, i_file) = per_file
             /\ per_file'[i_file'][1] = files[i_file']
             /\ per_file'[i_file'] \in RowsOf(files[i_file'])
             /\ \A k \in 2..i_file' : str_lt(per_file'[k - 1][1], per_file'[k][1])
       /\ (bpc # "loop" \/ i_file' = i_file) => per_file' = per_file]_vars

\* Two files with different metrics, both processed, the second after a
\* first that did not fail.
C18_Witness ==
    /\ bpc = "done" /\ script = "v3"
    /\ Len(per_file) = 2
    /\ ~per_file[1][2].nan /\ ~per_file[2][2].nan
    /\ per_file[1][6] # per_file[2][6]
    /\ dir[files[1]] # dir[files[2]]

\* ----------------------------------------------------------------- C19
\* C19: save_results_to_csv writes the per-file section, one row per entry
\* of per_file in the same order, the name then the six metrics with "NaN"
\* for every non-finite one, then the summary section, one row of mean, SD
\* and N for each metric column of the per-file section.
C19_CsvLayout ==
    (bpc = "done" /\ script = "v3") =>
        /\ Len(csv.rows) = 2 + Len(per_file) + 3 + 6
        /\ csv.rows[1] = <<"=== PER-FILE RESULTS (values in ", unit, ") ===">>
        /\ csv.rows[2] = CsvHeader
        /\ \A k \in 1..Len(per_file) :
              /\ Len(FileRow(k)) = Len(CsvHeader)
              /\ FileRow(k)[1] = per_file[k][1]
              /\ \A j \in 2..7 :
                    /\ FileRow(k)[j].text = "NaN" <=> ~isfinite(per_file[k][j])
                    /\ isfinite(per_file[k][j]) =>
                          /\ FileRow(k)[j].text = "g"
                          /\ FileRow(k)[j].of = per_file[k][j]
                          /\ FileRow(k)[j].point = decimal_sep
        /\ csv.rows[Len(per_file) + 3] = <<>>
        /\ csv.rows[Len(per_file) + 4] = <<"=== SUMMARY STATISTICS ===">>
        /\ csv.rows[Len(per_file) + 5] = <<"Metric", "Mean", "SD", "N">>
        /\ \A k \in 1..6 :
              /\ SummaryRow(k)[1] = CsvHeader[k + 1]
              /\ SummaryRow(k)[2].of = stats[k][1]
              /\ SummaryRow(k)[3].of = stats[k][2]
              /\ SummaryRow(k)[4] = stats[k][3]
              /\ \A j \in 2..3 : SummaryRow(k)[j].text = "NaN" <=> ~isfinite(stats[k][j - 1])

\* A CSV with a row of numbers after a row of NaN.
C19_Witness ==
    /\ bpc = "done" /\ script = "v3"
    /\ Len(per_file) = 2
    /\ per_file[1][2].nan /\ ~per_file[2][2].nan
    /\ FileRow(1)[2].text = "NaN" /\ FileRow(2)[2].text = "g"
    /\ SummaryRow(1)[4] = 1

\* ----------------------------------------------------------------- C20
Presets == { <<".", ",">>, <<",", ";">> }

\* The delimiter prompt has been answered.
Answered == script = "v3" /\ bpc \in {"scale", "loop", "report", "save", "done"}

\* C20, as amended: every answer selects one of the two presets, the second
\* exactly when the answer is "B" once stripped and upper-cased, so that the
\* decimal separator is never the field delimiter, in main and in the CSV.
C20_TwoPresets ==
    Answered =>
        /\ <<decimal_sep, csv_delimiter>> \in Presets
        /\ <<decimal_sep, csv_delimiter>> = <<",", ";">>
              <=> upper(strip(delimiter_answer)) = <<"B">>
        /\ decimal_sep # csv_delimiter
        /\ bpc = "done" =>
              /\ csv.delimiter = csv_delimiter
              /\ \A k \in 1..Len(per_file) : \A j \in 2..7 :
                    FileRow(k)[j].point # csv.delimiter

\* C20 as stated: the answer "B" gives the second preset and every other
\* answer the first.
C20_OnlyCapitalB ==
    Answered =>
        /\ <<decimal_sep, csv_delimiter>> \in Presets
        /\ <<decimal_sep, csv_delimiter>> = <<",", ";">> <=> delimiter_answer = <<"B">>
        /\ decimal_sep # csv_delimiter

\* The second preset chosen, and a number written with its comma.
C20_Witness ==
    /\ Answered /\ bpc = "done"
    /\ delimiter_answer = <<"B">>
    /\ csv.delimiter = ";"
    /\ \E k \in 1..Len(per_file) : FileRow(k)[2].point = ","

\* ----------------------------------------------------------------- C21
\* The number of files processed with success so far.
RECURSIVE OkCount(_)
OkCount(lines) ==
    IF lines = <<>> THEN 0
    ELSE (IF lines[Len(lines)][2] = "ok" THEN 1 ELSE 0)
         + OkCount(SubSeq(lines, 1, Len(lines) - 1))

\* C21: in v3, after every step, the six metric lists and plot_paths have
\* one entry per file processed with success and per_file one row per file
\* attempted; an iteration that fails adds the NaN row and leaves the seven
\* lists as they were; the six N of the summary are that same number.
C21_ListsInStep ==
    [][script' = "v3" =>
        /\ \A n \in {Len(vlamps'), Len(vramps'), Len(vhamps'), Len(vloamps'),
                      Len(hamps'), Len(wamps'), Len(plot_paths')} :
              n = OkCount(console')
        /\ Len(per_file') = Len(console') /\ Len(console') = i_file'
        /\ (bpc = "loop" /\ i_file' # i_file /\ console'[i_file'][2] = "error") =>
              /\ listVars' = listVars
              /\ per_file' = Append(per_file, <<files[i_file'], NaN, NaN, NaN, NaN, NaN, NaN>>)
        /\ (bpc = "loop" /\ i_file' # i_file /\ console'[i_file'][2] = "ok") =>
              Len(wamps') = Len(wamps) + 1
        /\ bpc' \in {"save", "done"} =>
              /\ Len(stats') = 6
              /\ \A k \in 1..6 : stats'[k][3] = OkCount(console')]_vars

\* Two files with the same lines, the first failed (its plot) and the second
\* processed: one entry in each list, two rows, N = 1.
C21_Witness ==
    /\ script = "v3" /\ bpc = "done"
    /\ Len(files) = 2
    /\ dir[files[1]] = dir[files[2]]
    /\ console[1][2] = "error" /\ console[2][2] = "ok"
    /\ Len(wamps) = 1 /\ Len(per_file) = 2
    /\ stats[6][3] = 1

\* ----------------------------------------------------------------- C22
\* C22: V_High = max(v_left, v_right) of v3 equals the peak-to-peak amplitude
\* max(z) - min(z) that vertical_amplitude_ptp of v1 gives for the profile.
C22_HighIsPeakToPeak ==
    /\ HasVertical => Max2(vl, vr) = v
    /\ pc = "done" =>
          /\ v_high = v
          /\ v_high = np_max(z) - np_min(z)
          /\ v_high = Max2(Py(z, idxs[1]), Py(z, idxs[3])) - Py(z, idxs[2])

\* A profile whose maximum is left of an interior minimum only, the right
\* part staying lower.
C22_Witness ==
    /\ pc = "done"
    /\ 0 < idxs[2] /\ idxs[2] < Len(z) - 1
    /\ vl > vr /\ vr > 0
    /\ v_high = v

\* ----------------------------------------------------------------- C23
\* C23: for a profile of at least 3 samples with strictly increasing x the
\* search interval of width_metric has positive width: no right search with
\* the minimum at the last sample, no left search with it at the first; with
\* the minimum at the first (last) sample the reference is that sample, ref_z
\* the global minimum, and the interval the whole x-range.
C23_PositiveInterval ==
    (HasWidthRef /\ Len(x) >= 3 /\ spline_ok(x)) =>
        /\ wref.x_lo < wref.x_hi
        /\ wref.search_side = "right" => i_min < LastIndex
        /\ wref.search_side = "left" => i_min > 0
        /\ i_min = 0 =>
              /\ wref.ref_idx = 0 /\ wref.ref_z = np_min(z)
              /\ wref.search_side = "right"
              /\ wref.x_lo = Py(x, 0) /\ wref.x_hi = Py(x, LastIndex)
        /\ i_min = LastIndex =>
              /\ wref.ref_idx = LastIndex /\ wref.ref_z = np_min(z)
              /\ wref.search_side = "left"
              /\ wref.x_lo = Py(x, 0) /\ wref.x_hi = Py(x, LastIndex)

\* The minimum is the last sample: a left search over the whole range.
C23_Witness ==
    /\ pc = "done" /\ Len(x) >= 3 /\ spline_ok(x)
    /\ i_min = LastIndex
    /\ wref.search_side = "left"
    /\ wref.x_hi - wref.x_lo = Py(x, LastIndex) - Py(x, 0)

\* ----------------------------------------------------------------- C24
\* The search-side samples nearest to ref_z.
NearestSamples ==
    { k \in SearchSide :
        \A j \in SearchSide : Abs(Py(z, k) - wref.ref_z) <= Abs(Py(z, j) - wref.ref_z) }

\* C24: the fallback takes, of the search-side samples equally near to
\* ref_z, the one of lowest index; on a left search that is the tied sample
\* farthest from the global minimum.
C24_FallbackTie ==
    (WidthReturned /\ wm_src = "fallback") =>
        \E k \in NearestSamples :
            /\ wm_match = <<GridSteps * Py(x, k), GridSteps * Py(x, k)>>
            /\ \A j \in NearestSamples : k <= j
            /\ wref.search_side = "left" =>
                  \A j \in NearestSamples : idxs[2] - k >= idxs[2] - j

\* A left search that falls back with two tied samples: the one away from
\* the minimum is the match point.
C24_Witness ==
    /\ WidthReturned /\ wm_src = "fallback"
    /\ wref.search_side = "left"
    /\ Cardinality(NearestSamples) >= 2
    /\ idxs[2] \in NearestSamples
    /\ wm_match[1] < GridSteps * Py(x, idxs[2])

\* ====================================================== the GUI at work
\* Files a file dialog can return; "" is a cancelled dialog.
ExistingFiles == {"run.xnra"}

FileNames == {"", "run.xnra", "gone.xnra"}

PresetNames == {"", "mine.json"}

ExportNames == {"", "plot.png"}

\* generate_plot calls without a stored figure that are counted.
MaxFailedPlots == 1

\* What the user types into the entries: a number field, the integer field
\* and an optional field, with valid, comma, fractional, empty and
\* non-numeric text.
DrawnText(a, text) ==
    \/ a = "fig_width" /\ text \in { <<"5", ",", "5">>, <<"7", ".", "5">>, <<>> }
    \/ a = "fig_dpi" /\ text \in { <<"-", "5", ".", "7">>, <<"a", "b">> }
    \/ a = "channel_min" /\ text \in { <<>>, <<"5", ",", "5">>, <<"a", "b">> }

TypedFields == {"fig_width", "fig_dpi", "channel_min"}

TypedTexts ==
    { <<>>, <<"5", ",", "5">>, <<"7", ".", "5">>, <<"-", "5", ".", "7">>, <<"a", "b">> }

\* A preset written by hand that holds one setting.
PartialPreset == [k \in {"dpi"} |-> [j |-> "number", text |-> <<"1", "5", "0">>]]

\* __init__: no file, no figure, every variable at its default.
GuiInit ==
    /\ ProfileIdle
    /\ LoadIdle
    /\ BatchIdle
    /\ WidthIdle
    /\ StatIdle
    /\ MarkerIdle
    /\ current_file = "" /\ last_fig = <<>> /\ tkvars = Defaults
    /\ message = NoMessage /\ validate_ret = "none"
    /\ disk = [name \in {"partial.json"} |-> PartialPreset]
    /\ exported = {} /\ failed_plots = 0 /\ gpc = "ready"

GuiRest == <<profVars, loadVars, batchVars, widthVars, statVars, markerVars>>

\* lines 576-582: browse_file.
BrowseFile ==
    /\ gpc = "ready"
    /\ \E name \in FileNames :
          current_file' = IF name # "" THEN name ELSE current_file
    /\ UNCHANGED <<last_fig, tkvars, message, validate_ret, disk, exported,
                   failed_plots, gpc>>
    /\ UNCHANGED GuiRest

\* Typing into an Entry: lines 513 and 528 bind the entry to its variable
\* with textvariable, so the text typed is the variable's text at once.
TypeText ==
    /\ gpc = "ready"
    /\ \E a \in TypedFields, text \in TypedTexts :
          /\ DrawnText(a, text)
          /\ tkvars' = [tkvars EXCEPT ![a] = text]
    /\ UNCHANGED <<current_file, last_fig, message, validate_ret, disk, exported,
                   failed_plots, gpc>>
    /\ UNCHANGED GuiRest

InvalidInput == <<"showerror", "Invalid Input", "">>

\* lines 79-117 for the entry of attribute a holding text: the text Tcl
\* holds afterwards, what is returned ("TclError" when var.get() of line 115
\* raises out of the handler) and whether the message box is shown.
validate_number_input_from_entry(a, text, is_int, allow_empty) ==
    IF allow_empty /\ strip(text) = <<>>
    THEN [text |-> text, ret |-> "True", shown |-> FALSE]
    ELSE The({ IF d.ok
               THEN [text |-> var_set(IF is_int THEN PyInt(py_int(d.n)) ELSE PyFloat(d.n)),
                     ret |-> "True", shown |-> FALSE]
               ELSE IF emptied.ok
               THEN [text |-> py_str(emptied.val), ret |-> "False", shown |-> TRUE]
               ELSE [text |-> <<>>, ret |-> "TclError", shown |-> TRUE] :
               d \in {py_float(replace_comma(strip(text)))}, emptied \in {var_get(a, <<>>)} })

\* lines 516-520 and 533-537: on_enter of a number field and of an optional
\* number field.
EnterOn(a) ==
    /\ gpc = "ready"
    /\ LET r == validate_number_input_from_entry(
                    a, tkvars[a], a \in IntVars, a \in OptionalVars)
       IN /\ tkvars' = [tkvars EXCEPT ![a] = r.text]
          /\ validate_ret' = r.ret
          /\ message' = IF r.shown THEN InvalidInput ELSE message
    /\ UNCHANGED <<current_file, last_fig, disk, exported, failed_plots, gpc>>
    /\ UNCHANGED GuiRest

PressEnter == \E a \in TypedFields : EnterOn(a)

\* The attributes generate_plot reads that were never assigned.
missing_attrs(ps) == {i \in 1..Len(ps) : ps[i] \notin Attributes}

\* lines 610-688: the params dict, built in order; the first read that
\* fails decides the exception: AttributeError for an attribute that does
\* not exist, TclError for a get() of text that is no number.
gather(ps, tk) ==
    The({ LET bad == {i \in 1..Len(ps) : ~read[i].ok}
              first == CHOOSE i \in bad : \A k \in bad : i <= k
          IN IF bad = {}
             THEN [error |-> "",
                   dict |-> [i \in 1..Len(ps) |->
                               IF ps[i] \in OptionalVars
                               THEN The({ IF o.none THEN PyStr(<<"N", "o", "n", "e">>)
                                          ELSE PyFloat(o.n) :
                                          o \in {get_optional_float(read[i].val.s)} })
                               ELSE read[i].val]]
             ELSE [error |-> IF first \in missing_attrs(ps) THEN "AttributeError"
                             ELSE "TclError",
                   dict |-> <<>>] :
          read \in { [i \in 1..Len(ps) |->
                        IF ps[i] \in Attributes THEN var_get(ps[i], tk[ps[i]])
                        ELSE [ok |-> FALSE, val |-> PyStr(<<>>)]] } })

gather_params(tk) == gather(ParamAttrs, tk)

\* line 694: "Failed to generate plot:\n{str(e)}"
FailedToPlot(e) == <<"showerror", "Failed to generate plot", e>>

NotStored == Min2(failed_plots + 1, MaxFailedPlots)

\* lines 598-694: generate_plot.  plot_xnra_spectrum returns the figure or
\* raises on a file it cannot read.
GeneratePlot ==
    /\ gpc = "ready"
    /\ IF current_file = ""
       THEN /\ message' = <<"showerror", "Please select an XNRA file first!", "">>
            /\ last_fig' = last_fig /\ failed_plots' = NotStored
       ELSE IF current_file \notin ExistingFiles
       THEN /\ message' = <<"showerror", "Selected file does not exist!", "">>
            /\ last_fig' = last_fig /\ failed_plots' = NotStored
       ELSE LET params == gather_params(tkvars)
            IN IF params.error # ""
               THEN /\ message' = FailedToPlot(params.error)
                    /\ last_fig' = last_fig /\ failed_plots' = NotStored
               ELSE \E raises \in BOOLEAN :
                       IF raises
                       THEN /\ message' = FailedToPlot("plot_xnra_spectrum")
                            /\ last_fig' = last_fig /\ failed_plots' = NotStored
                       ELSE /\ last_fig' = <<[filepath |-> current_file,
                                              params |-> params.dict]>>
                            /\ UNCHANGED <<message, failed_plots>>
    /\ UNCHANGED <<current_file, tkvars, validate_ret, disk, exported, gpc>>
    /\ UNCHANGED GuiRest

GenerateFirst == <<"showerror", "Please generate a plot first!", "">>

\* export_plot without the test of lines 735-737.
export_plot_unchecked(fig, name, raises) ==
    IF name = "" THEN [message |-> message, written |-> {}]
    ELSE IF raises THEN [message |-> <<"showerror", "Failed to export plot", "">>, written |-> {}]
    ELSE [message |-> <<"showinfo", "Plot exported", "">>, written |-> {<<name, fig>>}]

\* lines 733-758: export_plot; savefig writes the file or raises.
export_plot(fig, name, raises) ==
    IF fig = <<>> THEN [message |-> GenerateFirst, written |-> {}]
    ELSE IF name = "" THEN [message |-> message, written |-> {}]
    ELSE IF raises THEN [message |-> <<"showerror", "Failed to export plot", "">>, written |-> {}]
    ELSE [message |-> <<"showinfo", "Plot exported", "">>, written |-> {<<name, fig>>}]

ExportPlot ==
    /\ gpc = "ready"
    /\ \E name \in ExportNames, raises \in BOOLEAN :
          LET r == export_plot(last_fig, name, raises)
          IN /\ message' = r.message
             /\ exported' = exported \cup r.written
    /\ UNCHANGED <<current_file, last_fig, tkvars, validate_ret, disk, failed_plots, gpc>>
    /\ UNCHANGED GuiRest

\* lines 696-713: save_preset.
SavePreset ==
    /\ gpc = "ready"
    /\ \E name \in PresetNames :
          IF name = "" THEN UNCHANGED <<disk, message>>
          ELSE LET preset == get_current_settings(tkvars)
               IN IF preset.ok
                  THEN /\ disk' = [n \in DOMAIN disk \cup {name} |->
                                     IF n = name THEN dump_preset(preset.dict) ELSE disk[n]]
                       /\ message' = <<"showinfo", "Preset saved", "">>
                  ELSE /\ disk' = disk
                       /\ message' = <<"showerror", "Failed to save preset", "">>
    /\ UNCHANGED <<current_file, last_fig, tkvars, validate_ret, exported,
                   failed_plots, gpc>>
    /\ UNCHANGED GuiRest

\* lines 715-731: load_preset; open() of a file that is not there raises.
LoadPreset ==
    /\ gpc = "ready"
    /\ \E name \in PresetNames \cup {"partial.json"} :
          IF name = "" THEN UNCHANGED <<tkvars, message>>
          ELSE IF name \notin DOMAIN disk
          THEN /\ tkvars' = tkvars
               /\ message' = <<"showerror", "Failed to load preset", "">>
          ELSE LET r == apply_settings(tkvars, load_json(disk[name]))
               IN /\ tkvars' = r.tk
                  /\ message' = IF r.ok THEN <<"showinfo", "Preset loaded", "">>
                                ELSE <<"showerror", "Failed to load preset", "">>
    /\ UNCHANGED <<current_file, last_fig, validate_ret, disk, exported,
                   failed_plots, gpc>>
    /\ UNCHANGED GuiRest

\* Selecting a file, editing the settings, plotting and exporting.
\* save_preset and load_preset touch none of current_file, last_fig and
\* exported, and reach generate_plot only through the text of the setting
\* variables, which typing and validation produce as well.
GuiNext ==
    \/ BrowseFile
    \/ TypeText
    \/ PressEnter
    \/ GeneratePlot
    \/ ExportPlot

SpecGui == GuiInit /\ [][GuiNext]_vars

\* Editing the settings, saving and loading presets.
PresetNext ==
    \/ TypeText
    \/ SavePreset
    \/ LoadPreset

SpecPreset == GuiInit /\ [][PresetNext]_vars

\* ------------------------------------------------------------------ C25
\* C25: export_plot saves a figure only after a generate_plot call that
\* stored one.  While last_fig is None, at the start and after any failed
\* or rejected generate_plot call, export_plot shows "Please generate a
\* plot first!" and writes nothing; nothing is ever written while last_fig
\* is None, and only a generate_plot call on a selected, existing file
\* changes last_fig.
C25_ExportNeedsFigure ==
    [][/\ (ExportPlot /\ last_fig = <<>>) =>
              (message' = GenerateFirst /\ exported' = exported)
       /\ exported' # exported => last_fig # <<>>
       /\ last_fig' # last_fig =>
              (GeneratePlot /\ last_fig' # <<>> /\ current_file \in ExistingFiles)]_vars

\* export_plot was refused after a generate_plot call on an existing file
\* had failed.
C25_Witness ==
    /\ message = GenerateFirst
    /\ failed_plots >= 1
    /\ current_file \in ExistingFiles
    /\ last_fig = <<>>
    /\ exported = {}

\* ------------------------------------------------------------------ C26
\* C26: when a file has been selected and exists, generate_plot gathers the
\* current settings, plots with them and stores the figure in last_fig:
\* with every setting readable, the call either stores a figure or reports
\* that plot_xnra_spectrum itself raised.
C26_FigureStored ==
    [][(/\ GeneratePlot
        /\ current_file \in ExistingFiles
        /\ get_current_settings(tkvars).ok)
          => (last_fig' # <<>> \/ message' = FailedToPlot("plot_xnra_spectrum"))]_vars

\* generate_plot on the existing file with the default settings ended in the
\* AttributeError of line 626 and stored nothing.
C26_Witness ==
    /\ current_file \in ExistingFiles
    /\ tkvars = Defaults
    /\ message = FailedToPlot("AttributeError")
    /\ last_fig = <<>>

\* ------------------------------------------------------------------ C27
\* The variables the tabs create for settings.
SettingVars == DoubleVars \cup IntVars \cup OptionalVars \cup BooleanVars \cup StringVars

\* What every setting variable returns from get().
SettingValues(tk) == [a \in SettingVars |-> var_get(a, tk[a])]

RECURSIVE pair_attrs(_)
pair_attrs(ps) == IF ps = <<>> THEN {} ELSE {Head(ps)[2]} \cup pair_attrs(Tail(ps))

\* C27: get_current_settings writes the keys apply_settings reads, one per
\* setting variable; apply_settings(get_current_settings()) leaves the value
\* of every setting variable unchanged; the file save_preset writes loads
\* back as the dict that was saved, and load_preset sets every variable to
\* the value the file holds for its key, so that saving and then loading
\* the same file restores all settings.
C27_PresetRoundTrip ==
    /\ pair_keys(GetPairs) = pair_keys(ApplyPairs)
    /\ Cardinality(pair_keys(GetPairs)) = Len(GetPairs)
    /\ \A k \in pair_keys(GetPairs) : attr_of(GetPairs, k) = attr_of(ApplyPairs, k)
    /\ pair_attrs(GetPairs) = SettingVars
    /\ [](\A got \in {get_current_settings(tkvars)} :
            got.ok =>
               \A applied \in {apply_settings(tkvars, got.dict)} :
                  /\ applied.ok
                  /\ SettingValues(applied.tk) = SettingValues(tkvars))
    /\ [][/\ (SavePreset /\ message' = <<"showinfo", "Preset saved", "">>) =>
                 /\ load_json(disk'["mine.json"]) = get_current_settings(tkvars).dict
                 /\ DOMAIN disk'["mine.json"] = pair_keys(GetPairs)
          /\ (LoadPreset /\ message' = <<"showinfo", "Preset loaded", "">>) =>
                 \E name \in DOMAIN disk :
                    /\ tkvars' = apply_settings(tkvars, load_json(disk[name])).tk
                    /\ \A k \in DOMAIN disk[name] :
                          LET a == attr_of(ApplyPairs, k)
                          IN var_get(a, tkvars'[a]) =
                                 [ok |-> TRUE, val |-> load_json(disk[name])[k]]]_vars

\* A preset saved with a typed width and a fractional dpi has been loaded
\* back: the dpi text "-5" is what the saved file gives.
C27_Witness ==
    /\ "mine.json" \in DOMAIN disk
    /\ message = <<"showinfo", "Preset loaded", "">>
    /\ disk["mine.json"]["figure_width"].text = <<"7", ".", "5">>
    /\ tkvars["fig_width"] = <<"7", ".", "5">>
    /\ tkvars["fig_dpi"] = <<"-", "5">>
    /\ tkvars["channel_min"] = <<"5", ",", "5">>

\* ------------------------------------------------------------------ C28
\* Text validate_number_input_from_entry takes for a number.
ValidText(text) == py_float(replace_comma(strip(text))).ok

\* Text a field may hold after validation: a number, or nothing in an
\* optional field.
SettledText(a, text) ==
    \/ a \in OptionalVars /\ strip(text) = <<>>
    \/ var_get(a, text).ok /\ ValidText(text)

\* C28: on text that is not a valid number validate_number_input_from_entry
\* returns False and leaves the variable, and the entry showing it, at a
\* valid value; on valid text it sets the variable to the parsed number,
\* truncated for the integer field, and returns True; empty text is accepted
\* without change in optional fields only.
C28_Validation ==
    [][\A a \in TypedFields :
          EnterOn(a) =>
             LET text == tkvars[a]
                 d == py_float(replace_comma(strip(text)))
             IN /\ (a \in OptionalVars /\ strip(text) = <<>>) =>
                       (validate_ret' = "True" /\ tkvars'[a] = text)
                /\ (~(a \in OptionalVars /\ strip(text) = <<>>) /\ d.ok) =>
                       /\ validate_ret' = "True"
                       /\ tkvars'[a] = var_set(IF a \in IntVars THEN PyInt(py_int(d.n))
                                               ELSE PyFloat(d.n))
                /\ (~(a \in OptionalVars /\ strip(text) = <<>>) /\ ~d.ok) =>
                       /\ validate_ret' = "False"
                       /\ SettledText(a, tkvars'[a])]_vars

\* What the code does on each kind of text: as C28 states for valid text and
\* for the empty optional field; on any other text an optional field is
\* emptied and False returned, a number field is emptied and the TclError
\* of var.get() leaves the handler.
C28_AsCoded ==
    [][\A a \in TypedFields :
          EnterOn(a) =>
             LET text == tkvars[a]
                 d == py_float(replace_comma(strip(text)))
             IN /\ (a \in OptionalVars /\ strip(text) = <<>>) =>
                       (validate_ret' = "True" /\ tkvars'[a] = text)
                /\ (~(a \in OptionalVars /\ strip(text) = <<>>) /\ d.ok) =>
                       /\ validate_ret' = "True"
                       /\ tkvars'[a] = var_set(IF a \in IntVars THEN PyInt(py_int(d.n))
                                               ELSE PyFloat(d.n))
                /\ (~(a \in OptionalVars /\ strip(text) = <<>>) /\ ~d.ok) =>
                       /\ tkvars'[a] = <<>>
                       /\ message' = InvalidInput
                       /\ validate_ret' = IF a \in OptionalVars THEN "False" ELSE "TclError"]_vars

\* Enter on a number field holding text that is no number: the message was
\* shown, the field is empty and nothing was returned.
C28_Witness ==
    /\ validate_ret = "TclError"
    /\ message = InvalidInput
    /\ tkvars["fig_dpi"] = <<>>
    /\ tkvars["fig_width"] = <<"5", ".", "5">>

\* ============================================ apply_marker_range, called
\* Longest spectrum drawn.
MaxPoints == 2

ChannelVals == 0..2

CountVals == {5, 6}

\* Range limits, in channels or in energy units.
RangeVals == 0..3

OffsetVals == {0, 1}

\* Calibration gains: a falling, a missing and a rising energy scale.
GainVals == {-1, 0, 2}

DrawnCall(chs, cts, args) ==
    /\ \E n \in 0..MaxPoints : chs \in [1..n -> ChannelVals] /\ cts \in [1..n -> CountVals]
    /\ args \in [version : {"none"}, enabled : BOOLEAN,
                 mode : {Channel, <<"E", "n", "e", "r", "g", "y">>},
                 rmin : RangeVals, rmax : RangeVals, offset : OffsetVals, gain : GainVals]

MarkerInit ==
    /\ ProfileIdle
    /\ LoadIdle
    /\ BatchIdle
    /\ WidthIdle
    /\ StatIdle
    /\ GuiIdle
    /\ DrawnCall(channels, counts, range_args)
    /\ marker_ret = NoneNone /\ marker_pc = "call"

MarkerRest == <<profVars, loadVars, batchVars, widthVars, statVars, guiVars>>

\* nra_converter_v3.py lines 289 and 343.
CallV3 ==
    /\ marker_pc = "call"
    /\ marker_ret' = apply_marker_range_v3(channels, counts, range_args.enabled,
                                           range_args.rmin, range_args.rmax)
    /\ marker_pc' = "v3"
    /\ UNCHANGED <<channels, counts, range_args>>
    /\ UNCHANGED MarkerRest

\* xnra_main_v4.py lines 251 and 306.
CallV4 ==
    /\ marker_pc = "call"
    /\ marker_ret' = apply_marker_range(channels, counts, range_args.enabled,
                                        range_args.mode, range_args.rmin, range_args.rmax,
                                        range_args.offset, range_args.gain)
    /\ marker_pc' = "v4"
    /\ UNCHANGED <<channels, counts, range_args>>
    /\ UNCHANGED MarkerRest

\* nra_converter_v5.py lines 295 and 367: the same function body.
CallV5 ==
    /\ marker_pc = "call"
    /\ marker_ret' = apply_marker_range(channels, counts, range_args.enabled,
                                        range_args.mode, range_args.rmin, range_args.rmax,
                                        range_args.offset, range_args.gain)
    /\ marker_pc' = "v5"
    /\ UNCHANGED <<channels, counts, range_args>>
    /\ UNCHANGED MarkerRest

MarkerNext ==
    \/ CallV3
    \/ CallV4
    \/ CallV5

SpecMarker == MarkerInit /\ [][MarkerNext]_vars

\* ------------------------------------------------------------------ C29
\* The call was made in energy mode (v3 has channel ranges only).
EnergyMode == marker_pc \in {"v4", "v5"} /\ lower(range_args.mode) = Energy

\* The energy of channel c under the calibration of the call.
EnergyOf(c) == range_args.offset + range_args.gain * c

\* Channel c lies in [ch_min, ch_max].  In energy mode ch_min and ch_max are
\* (E - offset) / gain of the two limits: with a rising scale that is
\* rmin <= E(c) <= rmax, with a falling one rmax <= E(c) <= rmin.
InRange(c) ==
    IF ~EnergyMode THEN range_args.rmin <= c /\ c <= range_args.rmax
    ELSE IF range_args.gain > 0
    THEN range_args.rmin <= EnergyOf(c) /\ EnergyOf(c) <= range_args.rmax
    ELSE range_args.rmax <= EnergyOf(c) /\ EnergyOf(c) <= range_args.rmin

KeptPoints == {i \in 1..Len(channels) : InRange(channels[i])}

\* The j-th kept point, counting from 1 in the original order.
KeptAt(j) == CHOOSE i \in KeptPoints : Cardinality({k \in KeptPoints : k < i}) = j - 1

\* C29: apply_marker_range returns its inputs when the range is disabled;
\* enabled, it returns the pairs (channel, count) whose channel lies in
\* [ch_min, ch_max], in their order and still paired, and (None, None)
\* when there is none.  In energy mode with a gain of zero the division
\* raises ZeroDivisionError.
C29_MarkerRange ==
    marker_pc # "call" =>
       IF ~range_args.enabled THEN marker_ret = Returned(channels, counts)
       ELSE IF EnergyMode /\ range_args.gain = 0 THEN marker_ret = ZeroDivisionError
       ELSE IF KeptPoints = {} THEN marker_ret = NoneNone
       ELSE /\ marker_ret.kind = "arrays"
            /\ Len(marker_ret.channels) = Cardinality(KeptPoints)
            /\ Len(marker_ret.counts) = Cardinality(KeptPoints)
            /\ \A j \in 1..Cardinality(KeptPoints) :
                  /\ marker_ret.channels[j] = channels[KeptAt(j)]
                  /\ marker_ret.counts[j] = counts[KeptAt(j)]

\* An energy range whose lower limit falls between two channels and whose
\* upper limit is the energy of a channel: of two points the second is kept.
C29_Witness ==
    /\ marker_pc = "v4"
    /\ range_args.enabled /\ EnergyMode
    /\ range_args.gain = 2 /\ range_args.offset = 1
    /\ range_args.rmin = 2 /\ range_args.rmax = 3
    /\ channels = <<0, 1>> /\ counts = <<5, 6>>
    /\ marker_ret = Returned(<<1>>, <<6>>)

====
